---- MODULE Spec2Model ----
(***************************************************************************)
(* The two-wire (I2C) master transaction engine of src/I2C/i2c.c:          *)
(* i2c_start, i2c_stop, i2c_putchar, i2c_getchar_ack, i2c_getchar_nack,    *)
(* and the sequencers i2c_write and i2c_read built from them.              *)
(*                                                                         *)
(* One action is one blocking primitive call together with the code that   *)
(* reacts to its result, up to the next primitive call or the return.      *)
(* The TWI peripheral is the environment: after each operation it reports  *)
(* a status (TW_STATUS) and, for a receive, a byte (TWDR).  Two harnesses  *)
(* drive it: "fault" injects every status at every operation; "slave" is a *)
(* contention-free register-file device with an auto-incrementing         *)
(* register pointer.  A bus spy counts the operations of the current call. *)
(***************************************************************************)
EXTENDS Integers, Sequences, FiniteSets, TLC

\* ------------------------------------------------------------ constants
\* #define MAX_RESTARTS 20
MAX_RESTARTS == 20

\* TW_WRITE / TW_READ: the direction bit of the address frame.
TW_WRITE == 0
TW_READ == 1

\* the slave address of the simulated device (ADXL345SlaveAdrs, 0x53)
ADXL345SlaveAdrs == 83
TX_BUFFER_LENGTH == 16
PBKEYHOLDTIME == 100
PBKEYS_LOWER == 15
PBKeyNotProcess == 0
PBKeyClsdNotDbncd == 1
PBKeyPressed == 2
PBKeyHeld == 3
PBKeyPrsdOpenNotDbncd == 4
PBKeyHeldOpenNotDbncd == 5
KEY_PRESSED_FLAG == 1
KEY_HELD_FLAG == 2
KEY_CHANGED_FLAG == 4
DEBOUNCE_TIME == 10
HOLD_TIME == 1000
KEYPAD_IDLE == 0
KEYPAD_PRSD_NDBNC == 1
KEYPAD_PRESSED == 2
KEYPAD_HELD == 3
KEYPAD_RLSD_NDBNC == 4

\* ---------------------------------------------------------------- bounds
\* largest byte count of a call
MaxLen == 2

\* number of registers of the simulated slave: one more than the longest
\* transfer, so that a transfer never wraps onto itself
NumRegs == MaxLen + 1

Regs == 0 .. (NumRegs - 1)


\* the data byte values the caller and the slave draw from (uint8_t)
ByteVals == {8, 165}

\* #define SSD1306SlaveAdrs 0x3c
SSD1306SlaveAdrs == 60

\* #define SSD1306_I2C_COMMAND 0b00000000
SSD1306_I2C_COMMAND == 0

\* the slave addresses a caller passes (uint8_t SlvAdrs)
SlvAdrsVals == {ADXL345SlaveAdrs}

U8(x) == x % 256
U16(x) == x % 65536

\* a & b, a | b and ~a on bytes
RECURSIVE BitAnd(_, _)
BitAnd(a, b) ==
  IF a = 0 \/ b = 0 THEN 0
  ELSE (a % 2) * (b % 2) + 2 * BitAnd(a \div 2, b \div 2)

BitOr(a, b) == a + b - BitAnd(a, b)

BitNot(a) == 255 - a

\* ------------------------------------------------------ hardware statuses
\* The values TW_STATUS takes (util/twi.h names); TW_NO_INFO stands for
\* every status the switch statements do not name.
TwStatus ==
  {"TW_START", "TW_REP_START",
   "TW_MT_SLA_ACK", "TW_MT_SLA_NACK", "TW_MT_DATA_ACK", "TW_MT_DATA_NACK",
   "TW_MT_ARB_LOST",
   "TW_MR_SLA_ACK", "TW_MR_SLA_NACK", "TW_MR_DATA_ACK", "TW_MR_DATA_NACK",
   "TW_BUS_ERROR", "TW_NO_INFO"}

VARIABLES
  fn,        \* the function being executed: "none", "write", "read",
             \*   "ssd1306_command"
  pc,        \* its position: "idle", "Start", "SlaW", "Reg", "Data",
             \*   "RepStart", "SlaR", "Stop", "done"
  rc,        \* the status the pending i2c_stop(); return(rc); will return
  ret,       \* the returned status (-1 while no call has returned)
  SlvAdrs,   \* argument: device slave address
  len,       \* argument / loop counter: bytes left
  adrs,      \* argument: device register
  buf,       \* the caller's buffer (memory the buf pointer points into)
  bp,        \* how far the buf pointer has advanced
  restarts,  \* local: uint8_t restarts
  len0,      \* len as passed
  buf0,      \* the caller's buffer as it was at the call
  hw,        \* harness: "fault" or "slave"
  sl,        \* slave: "idle", "addr", "reg", "data", "tx"
  ptr,       \* slave: register pointer
  mem,       \* slave: register file
  wrote,     \* slave harness: the last write that returned 0
  spy,       \* bus spy: operation counts of the current call, last operation
  pair,      \* side-by-side run: the addressing phases of i2c_write and
             \*   i2c_read on one sequence of bus responses
  prim,      \* primitives by themselves: the last two calls of i2c_start
             \*   or i2c_putchar, with the status reported and the result
  saved,     \* the call stack below the running call: empty, or the frame
             \*   of the call an interrupt handler has suspended
  hang,      \* the peripheral will never raise the completion flag of the
             \*   operation the running call has issued
  mk,        \* matrix keypad: the file-scope variables of matrixKeypad.c,
             \*   the caller's keyStr buffer, the last call and its result
  pbk,       \* multiplexed pushbutton keys: the file-scope variables of
             \*   pbmxkeys.c, the DDR register of the key port, the last
             \*   call, and the account of the current press episode
  frame,     \* address framing by itself: a slave address and the two frame
             \*   bytes i2c_read makes of it
  scan,      \* matrix_keypad_scan_keys() seen at the column port: its
             \*   position, masks, loop variables, *colDDR and *colPORT
  press,     \* keypad watch: the closed scans in a row of key 0 and the
             \*   scans among them that raised its pressed and held flag
  uart       \* UART transmitter: the file-scope variables of uart.c, the
             \*   UDRIE0 and UDRE0 bits, the running uart_write call and
             \*   the bytes written to UDR0

\* the stuck-bus flag and the other peripherals
lateVars == <<frame, press, scan>>

farVars == <<hang, uart, mk, pbk, lateVars>>

\* the state of the side-by-side run and of the primitives by themselves,
\* and what the sequencers never touch
otherVars == <<pair, prim, farVars>>

vars == <<fn, pc, rc, ret, SlvAdrs, len, adrs, buf, bp, restarts, len0, buf0,
          hw, sl, ptr, mem, wrote, spy, otherVars, saved>>

callVars == <<fn, SlvAdrs, adrs, len0, buf0, hw, wrote, otherVars, saved>>

\* ---------------------------------------------------------------- spy
\* the bus operations the spy tells apart, by the place that issues them
Kinds ==
  {"Start", "SlaW", "Reg", "Data", "RepStart", "SlaR", "GetAck", "GetNack",
   "Stop"}

\* n[k]: operations of kind k issued in this call; rej[k]: those the bus
\* rejected; last: the last operation and its outcome on the wire;
\* lastRej: the kind of the last rejected operation; rx: the bytes received,
\* in arrival order, each with the acknowledge the master gave; byte: the
\* last byte put on the bus (-1: none yet); tx: the data bytes put, in the
\* order they went out; fault: a byte of this call met a bus error, a lost
\* arbitration or an unknown status; trace: the whole bus trace of the call,
\* which only the slave harness keeps.
SpyZero ==
  [n |-> [k \in Kinds |-> 0], rej |-> [k \in Kinds |-> 0],
   last |-> <<"none", "ok">>, lastRej |-> "none", rx |-> <<>>,
   byte |-> -1, tx |-> <<>>, fault |-> FALSE, trace |-> <<>>]

\* the slave harness's record of a write: nothing written yet
NoWrite == [s |-> 0, n |-> 0, adrs |-> 0, data |-> <<>>]

\* ------------------------------------------------------------ primitives
\* mutant: the status is not looked at
i2c_start_unchecked(status) == 0

\* mutant: case TW_REP_START left out
i2c_start_fresh_only(status) ==
  IF status = "TW_START" THEN 0 ELSE 1

\* i2c_start(): 0 if the Start (or repeated Start) was accepted, else 1
i2c_start(status) ==
  IF status \in {"TW_START", "TW_REP_START"} THEN 0 ELSE 1

\* mutant: TW_MT_SLA_NACK listed with the acknowledged cases
i2c_putchar_sla_nack_ok(status) ==
  CASE status \in {"TW_MT_SLA_ACK", "TW_MT_DATA_ACK", "TW_MT_SLA_NACK",
                   "TW_MR_SLA_ACK", "TW_MR_DATA_ACK"} -> 0
    [] status \in {"TW_BUS_ERROR", "TW_MT_DATA_NACK",
                   "TW_MT_ARB_LOST", "TW_MR_SLA_NACK", "TW_MR_DATA_NACK"} -> 1
    [] OTHER -> 2

\* mutant: the default case returns 0
i2c_putchar_default_ok(status) ==
  CASE status \in {"TW_BUS_ERROR", "TW_MT_SLA_NACK", "TW_MT_DATA_NACK",
                   "TW_MT_ARB_LOST", "TW_MR_SLA_NACK", "TW_MR_DATA_NACK"} -> 1
    [] OTHER -> 0

\* mutant: TW_MT_DATA_NACK listed with the acknowledged cases
i2c_putchar_data_nack_ok(status) ==
  CASE status \in {"TW_MT_SLA_ACK", "TW_MT_DATA_ACK", "TW_MT_DATA_NACK",
                   "TW_MR_SLA_ACK", "TW_MR_DATA_ACK"} -> 0
    [] status \in {"TW_BUS_ERROR", "TW_MT_SLA_NACK",
                   "TW_MT_ARB_LOST", "TW_MR_SLA_NACK", "TW_MR_DATA_NACK"} -> 1
    [] OTHER -> 2

\* mutant: TW_MT_ARB_LOST listed with the acknowledged cases
i2c_putchar_arb_ok(status) ==
  CASE status \in {"TW_MT_SLA_ACK", "TW_MT_DATA_ACK", "TW_MT_ARB_LOST",
                   "TW_MR_SLA_ACK", "TW_MR_DATA_ACK"} -> 0
    [] status \in {"TW_BUS_ERROR", "TW_MT_SLA_NACK", "TW_MT_DATA_NACK",
                   "TW_MR_SLA_NACK", "TW_MR_DATA_NACK"} -> 1
    [] OTHER -> 2

\* i2c_putchar(): the switch on TW_STATUS after the byte went out
i2c_putchar(status) ==
  CASE status \in {"TW_MT_SLA_ACK", "TW_MT_DATA_ACK",
                   "TW_MR_SLA_ACK", "TW_MR_DATA_ACK"} -> 0
    [] status \in {"TW_BUS_ERROR", "TW_MT_SLA_NACK", "TW_MT_DATA_NACK",
                   "TW_MT_ARB_LOST", "TW_MR_SLA_NACK", "TW_MR_DATA_NACK"} -> 1
    [] OTHER -> 2

\* mutant: SlvAdrs|TW_WRITE, the address not shifted
SlaFrame_noshift(a, dir) == U8(a) + dir

\* mutant: the direction bit is not or-ed in
SlaFrame_nodir(a, dir) == U8(a * 2)

\* mutant: the frame keeps the bit shifted out of the byte
SlaFrame_wide(a, dir) == a * 2 + dir

\* (SlvAdrs<<1)|TW_WRITE and (SlvAdrs<<1)|TW_READ in uint8_t: the shifted
\* address has bit 0 clear, so or-ing the direction bit adds it.
SlaFrame(a, dir) == U8(a * 2) + dir

\* ------------------------------------------------- the TWI peripheral
\* The status the peripheral reports for a Start.
StartStatus ==
  IF hw = "slave" THEN {IF sl = "idle" THEN "TW_START" ELSE "TW_REP_START"}
  ELSE TwStatus

\* The simulated slave's answer to byte c, by its position in the frame.
SlaveStatus(c) ==
  CASE sl = "addr" /\ c = SlaFrame(ADXL345SlaveAdrs, TW_WRITE) -> "TW_MT_SLA_ACK"
    [] sl = "addr" /\ c = SlaFrame(ADXL345SlaveAdrs, TW_READ) -> "TW_MR_SLA_ACK"
    [] sl = "addr" -> "TW_MT_SLA_NACK"
    [] sl \in {"reg", "data"} -> "TW_MT_DATA_ACK"
    [] OTHER -> "TW_MT_DATA_NACK"

\* The status the peripheral reports after byte c went out.
PutStatus(c) ==
  IF hw = "slave" THEN {SlaveStatus(c)} ELSE TwStatus

\* The byte TWDR holds after a receive.
RxByte ==
  IF hw = "slave" THEN {IF sl = "tx" THEN mem[ptr] ELSE 255} ELSE ByteVals

\* Effect of a Start on the bus and the slave.
HwStart(r) ==
  /\ sl' = IF hw = "slave" /\ r = 0 THEN "addr" ELSE sl
  /\ UNCHANGED <<ptr, mem>>

\* Effect of putting byte c on the bus.
HwPut(c) ==
  /\ IF hw # "slave" THEN UNCHANGED <<sl, ptr, mem>>
     ELSE CASE sl = "addr" ->
                 /\ sl' = IF c = SlaFrame(ADXL345SlaveAdrs, TW_WRITE) THEN "reg"
                          ELSE IF c = SlaFrame(ADXL345SlaveAdrs, TW_READ) THEN "tx"
                          ELSE "idle"
                 /\ UNCHANGED <<ptr, mem>>
            [] sl = "reg" ->
                 /\ sl' = "data"
                 /\ ptr' = c % NumRegs
                 /\ UNCHANGED mem
            [] sl = "data" ->
                 /\ mem' = [mem EXCEPT ![ptr] = c]
                 /\ ptr' = (ptr + 1) % NumRegs
                 /\ UNCHANGED sl
            [] OTHER -> UNCHANGED <<sl, ptr, mem>>

\* Effect of receiving a byte.
HwGet ==
  /\ UNCHANGED <<sl, mem>>
  /\ ptr' = IF hw = "slave" /\ sl = "tx" THEN (ptr + 1) % NumRegs ELSE ptr

\* Effect of a Stop.
HwStop ==
  /\ sl' = IF hw = "slave" THEN "idle" ELSE sl
  /\ UNCHANGED <<ptr, mem>>

\* What the wire showed for a Start: accepted or rejected.
StartClass(status) ==
  IF status \in {"TW_START", "TW_REP_START"} THEN "ok" ELSE "rej"

\* What the wire showed for a byte put on the bus.
PutClass(status) ==
  CASE status \in {"TW_MT_SLA_ACK", "TW_MT_DATA_ACK",
                   "TW_MR_SLA_ACK", "TW_MR_DATA_ACK"} -> "ok"
    [] status \in {"TW_MT_SLA_NACK", "TW_MT_DATA_NACK",
                   "TW_MR_SLA_NACK", "TW_MR_DATA_NACK"} -> "nack"
    [] status = "TW_MT_ARB_LOST" -> "arb"
    [] status = "TW_BUS_ERROR" -> "buserr"
    [] OTHER -> "unknown"

\* spy: one more operation of kind k, with outcome cls on the wire
Log(k, cls) ==
  [spy EXCEPT !.n[k] = @ + 1,
              !.rej[k] = IF cls = "ok" THEN @ ELSE @ + 1,
              !.last = <<k, cls>>,
              !.lastRej = IF cls = "ok" THEN @ ELSE k,
              !.trace = IF hw = "slave" THEN Append(@, <<k, -1>>) ELSE @]

\* the outcomes of a byte that are faults of the bus, not answers of a slave
FaultClasses == {"arb", "buserr", "unknown"}

\* spy: byte c put on the bus by the operation of kind k, with outcome cls
LogPut(k, c, cls) ==
  [Log(k, cls) EXCEPT !.byte = c,
                      !.tx = IF k = "Data" THEN Append(@, c) ELSE @,
                      !.fault = @ \/ cls \in FaultClasses,
                      !.trace = IF hw = "slave"
                                THEN Append(spy.trace, <<k, c>>) ELSE @]

\* spy: one more byte received, acknowledged (k = "GetAck") or not
LogRx(k, c) ==
  [Log(k, "ok") EXCEPT !.rx = Append(@, <<k, c>>),
                       !.trace = IF hw = "slave"
                                 THEN Append(spy.trace, <<k, c>>) ELSE @]

\* ------------------------------------------------------------- i2c_write
\* mutant: if(len < 0)
i2c_write_nodata_strict(l) == l < 0

\* if(len <= 0): nothing to write
i2c_write_nodata(l) == l <= 0

\* mutant: if(restarts-- < 0), never true of a uint8_t
i2c_write_giveup_never(r) == FALSE

\* if(restarts-- == 0): the value tested is the one before the decrement
i2c_write_giveup(r) == r = 0

\* mutant: for(; len > 1; len--)
i2c_write_more_short(l) == l > 1

\* for(; len > 0; len--): another data byte to put
i2c_write_more(l) == l > 0

\* mutant: the call is refused while another call is in progress
i2c_write_entry_guarded(s, l, a, b) ==
  /\ pc \in {"idle", "done"}
  /\ fn' = "write"
  /\ SlvAdrs' = s /\ len' = l /\ adrs' = a /\ buf' = b /\ bp' = 0
  /\ len0' = l /\ buf0' = b
  /\ restarts' = MAX_RESTARTS
  /\ spy' = SpyZero
  /\ rc' = 0
  /\ IF i2c_write_nodata(l) THEN pc' = "done" /\ ret' = 0
                            ELSE pc' = "Start" /\ ret' = -1
  /\ UNCHANGED <<hw, sl, ptr, mem, wrote, otherVars>>

\* uint8_t restarts = MAX_RESTARTS; if(len <= 0) return(0);
i2c_write_entry(s, l, a, b) ==
  /\ fn' = "write"
  /\ SlvAdrs' = s /\ len' = l /\ adrs' = a /\ buf' = b /\ bp' = 0
  /\ len0' = l /\ buf0' = b
  /\ restarts' = MAX_RESTARTS
  /\ spy' = SpyZero
  /\ rc' = 0
  /\ IF i2c_write_nodata(l) THEN pc' = "done" /\ ret' = 0
                            ELSE pc' = "Start" /\ ret' = -1
  /\ UNCHANGED <<hw, sl, ptr, mem, wrote, otherVars>>

\* WriteRestart: if(i2c_start()) { if(restarts-- == 0) { i2c_stop(); return(1); }
\*                                 goto WriteRestart; }
i2c_write_Start ==
  /\ fn = "write" /\ pc = "Start"
  /\ \E status \in StartStatus :
       LET r == i2c_start(status) IN
       /\ HwStart(r)
       /\ spy' = Log("Start", StartClass(status))
       /\ IF r # 0
          THEN /\ restarts' = U8(restarts - 1)
               /\ IF i2c_write_giveup(restarts)
                  THEN pc' = "Stop" /\ rc' = 1
                  ELSE pc' = "Start" /\ rc' = rc
          ELSE /\ pc' = "SlaW"
               /\ UNCHANGED <<restarts, rc>>
  /\ UNCHANGED <<ret, len, buf, bp>>
  /\ UNCHANGED callVars

\* if(i2c_putchar((SlvAdrs<<1)|TW_WRITE)) { if(restarts-- == 0) { i2c_stop();
\*                                          return(2); } goto WriteRestart; }
i2c_write_SlaW ==
  /\ fn = "write" /\ pc = "SlaW"
  /\ LET c == SlaFrame(SlvAdrs, TW_WRITE) IN
     \E status \in PutStatus(c) :
       LET r == i2c_putchar(status) IN
       /\ HwPut(c)
       /\ spy' = LogPut("SlaW", c, PutClass(status))
       /\ IF r # 0
          THEN /\ restarts' = U8(restarts - 1)
               /\ IF i2c_write_giveup(restarts)
                  THEN pc' = "Stop" /\ rc' = 2
                  ELSE pc' = "Start" /\ rc' = rc
          ELSE /\ pc' = "Reg"
               /\ UNCHANGED <<restarts, rc>>
  /\ UNCHANGED <<ret, len, buf, bp>>
  /\ UNCHANGED callVars

\* if(i2c_putchar(adrs)) { return(3); }
i2c_write_Reg ==
  /\ fn = "write" /\ pc = "Reg"
  /\ \E status \in PutStatus(adrs) :
       LET r == i2c_putchar(status) IN
       /\ HwPut(adrs)
       /\ spy' = LogPut("Reg", adrs, PutClass(status))
       /\ IF r # 0 THEN pc' = "done" /\ ret' = 3
                   ELSE /\ pc' = IF i2c_write_more(len) THEN "Data" ELSE "Stop"
                        /\ ret' = ret
  /\ UNCHANGED <<rc, len, buf, bp, restarts>>
  /\ UNCHANGED callVars

\* for(; len > 0; len--) { if(i2c_putchar(*buf++)) { return(4); } }
i2c_write_Data ==
  /\ fn = "write" /\ pc = "Data"
  /\ LET c == buf[bp + 1] IN
     \E status \in PutStatus(c) :
       LET r == i2c_putchar(status) IN
       /\ HwPut(c)
       /\ spy' = LogPut("Data", c, PutClass(status))
       /\ bp' = bp + 1
       /\ IF r # 0
          THEN pc' = "done" /\ ret' = 4 /\ UNCHANGED <<len, rc>>
          ELSE /\ len' = len - 1
               /\ ret' = ret
               /\ pc' = IF i2c_write_more(len - 1) THEN "Data" ELSE "Stop"
               /\ rc' = 0
  /\ UNCHANGED <<buf, restarts>>
  /\ UNCHANGED callVars

\* i2c_stop(); return(rc);  -- the three places i2c_write stops the bus
i2c_write_Stop ==
  /\ fn = "write" /\ pc = "Stop"
  /\ HwStop
  /\ spy' = Log("Stop", "ok")
  /\ pc' = "done" /\ ret' = rc
  /\ wrote' = IF hw = "slave" /\ rc = 0
              THEN [s |-> SlvAdrs, n |-> len0, adrs |-> adrs,
                    data |-> SubSeq(buf, 1, len0)]
              ELSE wrote
  /\ UNCHANGED <<rc, len, buf, bp, restarts>>
  /\ UNCHANGED <<fn, SlvAdrs, adrs, len0, buf0, hw, otherVars, saved>>

\* -------------------------------------------------------------- i2c_read
\* if(len == 0): nothing to read
i2c_read_nodata(l) == l = 0

\* mutant: if(restarts-- == 0)
i2c_read_giveup_post(r) == r = 0

\* if(--restarts == 0): the value tested is the one after the decrement
i2c_read_giveup(r) == U8(r - 1) = 0

\* mutant: for(; len > 0; len--)
i2c_read_more_all(l) == l > 0

\* mutant: the acknowledged receives are left out
i2c_read_more_none(l) == FALSE

\* mutant: for(; len >= 1; len--)
i2c_read_more_extra(l) == l >= 1

\* for(; len > 1; len--): another byte to receive before the last one
i2c_read_more(l) == l > 1

\* uint8_t restarts = MAX_RESTARTS; if(len == 0) return(0);
i2c_read_entry(s, l, a, b) ==
  /\ fn' = "read"
  /\ SlvAdrs' = s /\ len' = l /\ adrs' = a /\ buf' = b /\ bp' = 0
  /\ len0' = l /\ buf0' = b
  /\ restarts' = MAX_RESTARTS
  /\ spy' = SpyZero
  /\ rc' = 0
  /\ IF i2c_read_nodata(l) THEN pc' = "done" /\ ret' = 0
                           ELSE pc' = "Start" /\ ret' = -1
  /\ UNCHANGED <<hw, sl, ptr, mem, wrote, otherVars>>

\* ReadRRestart: if(i2c_start()) { if(--restarts == 0) { return(1); }
\*                                 goto ReadRRestart; }
i2c_read_Start ==
  /\ fn = "read" /\ pc = "Start"
  /\ \E status \in StartStatus :
       LET r == i2c_start(status) IN
       /\ HwStart(r)
       /\ spy' = Log("Start", StartClass(status))
       /\ IF r # 0
          THEN /\ restarts' = U8(restarts - 1)
               /\ IF i2c_read_giveup(restarts)
                  THEN pc' = "done" /\ ret' = 1
                  ELSE pc' = "Start" /\ ret' = ret
          ELSE /\ pc' = "SlaW"
               /\ UNCHANGED <<restarts, ret>>
  /\ UNCHANGED <<rc, len, buf, bp>>
  /\ UNCHANGED callVars

\* if(i2c_putchar((SlvAdrs<<1)|TW_WRITE)) { if(--restarts == 0) { i2c_stop();
\*                                          return(2); } goto ReadRRestart; }
i2c_read_SlaW ==
  /\ fn = "read" /\ pc = "SlaW"
  /\ LET c == SlaFrame(SlvAdrs, TW_WRITE) IN
     \E status \in PutStatus(c) :
       LET r == i2c_putchar(status) IN
       /\ HwPut(c)
       /\ spy' = LogPut("SlaW", c, PutClass(status))
       /\ IF r # 0
          THEN /\ restarts' = U8(restarts - 1)
               /\ IF i2c_read_giveup(restarts)
                  THEN pc' = "Stop" /\ rc' = 2
                  ELSE pc' = "Start" /\ rc' = rc
          ELSE /\ pc' = "Reg"
               /\ UNCHANGED <<restarts, rc>>
  /\ UNCHANGED <<ret, len, buf, bp>>
  /\ UNCHANGED callVars

\* if(i2c_putchar(adrs)) { return(3); }
i2c_read_Reg ==
  /\ fn = "read" /\ pc = "Reg"
  /\ \E status \in PutStatus(adrs) :
       LET r == i2c_putchar(status) IN
       /\ HwPut(adrs)
       /\ spy' = LogPut("Reg", adrs, PutClass(status))
       /\ IF r # 0 THEN pc' = "done" /\ ret' = 3
                   ELSE pc' = "RepStart" /\ ret' = ret
  /\ UNCHANGED <<rc, len, buf, bp, restarts>>
  /\ UNCHANGED callVars

\* if(i2c_start()) { return(4); }   -- repeated Start
i2c_read_RepStart ==
  /\ fn = "read" /\ pc = "RepStart"
  /\ \E status \in StartStatus :
       LET r == i2c_start(status) IN
       /\ HwStart(r)
       /\ spy' = Log("RepStart", StartClass(status))
       /\ IF r # 0 THEN pc' = "done" /\ ret' = 4
                   ELSE pc' = "SlaR" /\ ret' = ret
  /\ UNCHANGED <<rc, len, buf, bp, restarts>>
  /\ UNCHANGED callVars

\* if(i2c_putchar((SlvAdrs<<1)|TW_READ)) { return(5); }
i2c_read_SlaR ==
  /\ fn = "read" /\ pc = "SlaR"
  /\ LET c == SlaFrame(SlvAdrs, TW_READ) IN
     \E status \in PutStatus(c) :
       LET r == i2c_putchar(status) IN
       /\ HwPut(c)
       /\ spy' = LogPut("SlaR", c, PutClass(status))
       /\ IF r # 0 THEN pc' = "done" /\ ret' = 5
                   ELSE pc' = "Data" /\ ret' = ret
  /\ UNCHANGED <<rc, len, buf, bp, restarts>>
  /\ UNCHANGED callVars

\* for(; len > 1; len--) { *(buf++) = i2c_getchar_ack(); }
\* *(buf++) = i2c_getchar_nack();
i2c_read_Data ==
  /\ fn = "read" /\ pc = "Data"
  /\ \E c \in RxByte :
       /\ HwGet
       /\ buf' = [buf EXCEPT ![bp + 1] = c]
       /\ bp' = bp + 1
       /\ IF i2c_read_more(len)
          THEN /\ spy' = LogRx("GetAck", c)
               /\ len' = len - 1
               /\ pc' = "Data" /\ rc' = rc
          ELSE /\ spy' = LogRx("GetNack", c)
               /\ len' = len
               /\ pc' = "Stop" /\ rc' = 0
  /\ UNCHANGED <<ret, restarts>>
  /\ UNCHANGED callVars

\* mutant: return(rc) with the i2c_stop() left out
i2c_read_Stop_missing ==
  /\ fn = "read" /\ pc = "Stop"
  /\ pc' = "done" /\ ret' = rc
  /\ UNCHANGED <<rc, len, buf, bp, restarts, sl, ptr, mem, spy>>
  /\ UNCHANGED callVars

\* i2c_stop(); return(rc);  -- the two places i2c_read stops the bus
i2c_read_Stop ==
  /\ fn = "read" /\ pc = "Stop"
  /\ HwStop
  /\ spy' = Log("Stop", "ok")
  /\ pc' = "done" /\ ret' = rc
  /\ UNCHANGED <<rc, len, buf, bp, restarts>>
  /\ UNCHANGED callVars

\* --------------------------------------------------------- the callers
\* The register addresses a caller passes (uint8_t adrs).  Under fault
\* injection no device decodes the address, so one value stands for all.
CallRegs == IF hw = "slave" THEN {0, 1} ELSE {1}

\* The buffers a caller passes.  The slave harness passes every byte
\* pattern; the fault harness passes the two alternating patterns, whose
\* neighbouring bytes differ.
CallBufs ==
  IF hw = "slave" THEN [1 .. MaxLen -> ByteVals]
  ELSE {[i \in 1 .. MaxLen |-> IF i % 2 = 1 THEN 8 ELSE 165],
        [i \in 1 .. MaxLen |-> IF i % 2 = 1 THEN 165 ELSE 8]}

\* A driver calls i2c_write with a buffer it filled.
CallWrite ==
  \E s \in SlvAdrsVals, l \in 0 .. MaxLen, a \in CallRegs,
     b \in CallBufs :
    /\ pc = "idle"
    /\ i2c_write_entry(s, l, a, b)
    /\ UNCHANGED saved

\* A driver calls i2c_read with a buffer holding stale bytes.
CallRead ==
  \E s \in SlvAdrsVals, l \in 0 .. MaxLen, a \in CallRegs,
     b \in CallBufs :
    /\ pc = "idle"
    /\ i2c_read_entry(s, l, a, b)
    /\ UNCHANGED saved

\* The call has returned: its frame is gone, the caller has the status and
\* goes on; the spy starts afresh for the next call.
CallerResumes ==
  /\ pc = "done" /\ saved = <<>>
  /\ fn' = "none" /\ pc' = "idle" /\ rc' = 0 /\ ret' = -1
  /\ SlvAdrs' = ADXL345SlaveAdrs /\ len' = 0 /\ adrs' = 0 /\ bp' = 0
  /\ restarts' = MAX_RESTARTS
  /\ len0' = 0 /\ buf0' = buf
  /\ spy' = SpyZero
  /\ UNCHANGED <<buf, hw, sl, ptr, mem, wrote, otherVars, saved>>

\* ------------------------------------------------- ssd1306_command
\* (SSD1306SlaveAdrs<<1) & 0b11111110: the shifted address, bit 0 cleared
ssd1306_frame == U8(SSD1306SlaveAdrs * 2) - (U8(SSD1306SlaveAdrs * 2) % 2)

\* void ssd1306_command(uint8_t cmd) is called
ssd1306_command_entry ==
  /\ pc = "idle"
  /\ fn' = "ssd1306_command" /\ pc' = "Start"
  /\ spy' = SpyZero
  /\ UNCHANGED <<rc, ret, SlvAdrs, len, adrs, buf, bp, restarts, len0, buf0>>
  /\ UNCHANGED <<hw, sl, ptr, mem, wrote, otherVars, saved>>

\* i2c_start();  -- the result is not looked at
ssd1306_command_Start ==
  /\ fn = "ssd1306_command" /\ pc = "Start"
  /\ \E status \in StartStatus :
       /\ HwStart(i2c_start(status))
       /\ spy' = Log("Start", StartClass(status))
  /\ pc' = "SlaW"
  /\ UNCHANGED <<rc, ret, len, buf, bp, restarts>>
  /\ UNCHANGED callVars

\* i2c_putchar((SSD1306SlaveAdrs<<1) & 0b11111110);
ssd1306_command_SlaW ==
  /\ fn = "ssd1306_command" /\ pc = "SlaW"
  /\ \E status \in PutStatus(ssd1306_frame) :
       /\ HwPut(ssd1306_frame)
       /\ spy' = LogPut("SlaW", ssd1306_frame, PutClass(status))
  /\ pc' = "Reg"
  /\ UNCHANGED <<rc, ret, len, buf, bp, restarts>>
  /\ UNCHANGED callVars

\* i2c_putchar(SSD1306_I2C_COMMAND);
ssd1306_command_Ctl ==
  /\ fn = "ssd1306_command" /\ pc = "Reg"
  /\ \E status \in PutStatus(SSD1306_I2C_COMMAND) :
       /\ HwPut(SSD1306_I2C_COMMAND)
       /\ spy' = LogPut("Reg", SSD1306_I2C_COMMAND, PutClass(status))
  /\ pc' = "Data"
  /\ UNCHANGED <<rc, ret, len, buf, bp, restarts>>
  /\ UNCHANGED callVars

\* i2c_putchar(cmd);  -- cmd is read here only, so it is drawn here
ssd1306_command_Cmd ==
  /\ fn = "ssd1306_command" /\ pc = "Data"
  /\ \E cmd \in ByteVals : \E status \in PutStatus(cmd) :
       /\ HwPut(cmd)
       /\ spy' = LogPut("Data", cmd, PutClass(status))
  /\ pc' = "Stop"
  /\ UNCHANGED <<rc, ret, len, buf, bp, restarts>>
  /\ UNCHANGED callVars

\* i2c_stop();
ssd1306_command_Stop ==
  /\ fn = "ssd1306_command" /\ pc = "Stop"
  /\ HwStop
  /\ spy' = Log("Stop", "ok")
  /\ pc' = "ret"
  /\ UNCHANGED <<rc, ret, len, buf, bp, restarts>>
  /\ UNCHANGED callVars

\* the function returns (void) and its caller goes on
ssd1306_command_return ==
  /\ fn = "ssd1306_command" /\ pc = "ret"
  /\ fn' = "none" /\ pc' = "idle"
  /\ spy' = SpyZero
  /\ UNCHANGED <<rc, ret, SlvAdrs, len, adrs, buf, bp, restarts, len0, buf0>>
  /\ UNCHANGED <<hw, sl, ptr, mem, wrote, otherVars, saved>>

\* ------------------------------------------ the primitives by themselves
\* no primitive called yet
PrimNone == [op |-> "none", held |-> FALSE, status |-> "TW_NO_INFO", ret |-> 0]

PrimIdle == [prev |-> PrimNone, cur |-> PrimNone]

\* What the peripheral can report for a Start: TW_START when the bus was
\* idle, TW_REP_START when this master holds it, or any status that is not
\* an accepted Start.
StartReports(held) ==
  (TwStatus \ {"TW_START", "TW_REP_START"})
    \cup {IF held THEN "TW_REP_START" ELSE "TW_START"}

\* ------------------------------------- the two addressing phases, paired
\* One side of the pair: the position in the addressing phase ("idle",
\* "Start", "SlaW", "Reg", "Stop", "addressed", "done"), the function's
\* restarts and status, and what it has issued on the bus so far.
AddrIdle ==
  [pc |-> "idle", restarts |-> MAX_RESTARTS, rc |-> 0, ret |-> -1,
   nStart |-> 0, nPut |-> 0, nStop |-> 0]

PairIdle == [w |-> AddrIdle, r |-> AddrIdle]

\* i2c_write from WriteRestart to the register-address byte, one bus
\* operation at a time, the peripheral reporting status
i2c_write_addr(f, status) ==
  CASE f.pc = "Start" ->
         IF i2c_start(status) # 0
         THEN [f EXCEPT !.nStart = @ + 1, !.restarts = U8(@ - 1),
                        !.pc = IF i2c_write_giveup(f.restarts)
                               THEN "Stop" ELSE "Start",
                        !.rc = IF i2c_write_giveup(f.restarts) THEN 1 ELSE @]
         ELSE [f EXCEPT !.nStart = @ + 1, !.pc = "SlaW"]
    [] f.pc = "SlaW" ->
         IF i2c_putchar(status) # 0
         THEN [f EXCEPT !.nPut = @ + 1, !.restarts = U8(@ - 1),
                        !.pc = IF i2c_write_giveup(f.restarts)
                               THEN "Stop" ELSE "Start",
                        !.rc = IF i2c_write_giveup(f.restarts) THEN 2 ELSE @]
         ELSE [f EXCEPT !.nPut = @ + 1, !.pc = "Reg"]
    [] f.pc = "Reg" ->
         IF i2c_putchar(status) # 0
         THEN [f EXCEPT !.nPut = @ + 1, !.pc = "done", !.ret = 3]
         ELSE [f EXCEPT !.nPut = @ + 1, !.pc = "addressed"]
    [] f.pc = "Stop" ->
         [f EXCEPT !.nStop = @ + 1, !.pc = "done", !.ret = f.rc]
    [] OTHER -> f

\* i2c_read from ReadRRestart to the register-address byte
i2c_read_addr(f, status) ==
  CASE f.pc = "Start" ->
         IF i2c_start(status) # 0
         THEN IF i2c_read_giveup(f.restarts)
              THEN [f EXCEPT !.nStart = @ + 1, !.restarts = U8(@ - 1),
                             !.pc = "done", !.ret = 1]
              ELSE [f EXCEPT !.nStart = @ + 1, !.restarts = U8(@ - 1)]
         ELSE [f EXCEPT !.nStart = @ + 1, !.pc = "SlaW"]
    [] f.pc = "SlaW" ->
         IF i2c_putchar(status) # 0
         THEN [f EXCEPT !.nPut = @ + 1, !.restarts = U8(@ - 1),
                        !.pc = IF i2c_read_giveup(f.restarts)
                               THEN "Stop" ELSE "Start",
                        !.rc = IF i2c_read_giveup(f.restarts) THEN 2 ELSE @]
         ELSE [f EXCEPT !.nPut = @ + 1, !.pc = "Reg"]
    [] f.pc = "Reg" ->
         IF i2c_putchar(status) # 0
         THEN [f EXCEPT !.nPut = @ + 1, !.pc = "done", !.ret = 3]
         ELSE [f EXCEPT !.nPut = @ + 1, !.pc = "addressed"]
    [] f.pc = "Stop" ->
         [f EXCEPT !.nStop = @ + 1, !.pc = "done", !.ret = f.rc]
    [] OTHER -> f

\* the side has left the addressing phase, or has not entered it
AddrOver(f) == f.pc \in {"idle", "addressed", "done"}

\* the keypad as the application sets it up: matrix_keypad_init(rowPt, 1,
\* colPt, 3, "21", 1, 2), then matrix_keypad_set_debounce_time(MkDebounce)
\* and matrix_keypad_set_hold_time(MkHold).  keyStr is the buffer the
\* application passes to the get functions; key0 is the key array before
\* the last call.
MkDebounce == 1
MkHold == 2

MkKeys == 0 .. 1

MkCodes == [i \in MkKeys |-> IF i = 0 THEN 50 ELSE 49]

MkInit ==
  [key |-> [i \in MkKeys |->
              [flags |-> 0, state |-> KEYPAD_IDLE, code |-> MkCodes[i],
               debounceTimer |-> DEBOUNCE_TIME, holdTimer |-> HOLD_TIME]],
   numRows |-> 1, numCols |-> 2,
   keyDebounceTime |-> MkDebounce, keyHoldTime |-> MkHold,
   keyStr |-> [j \in 0 .. 2 |-> 255],
   ret |-> 0, op |-> "init"]

\* pbmxkeys_init(keyPort, PBKEYS_LOWER) on a port whose pins are all inputs
\* after reset.  PBKeyCode is the static of pbmxkeys_run.  epClosed counts
\* the calls in a row, from the one that detected the press, in which the
\* pins read the detected code (it stops at EpCap); epRun tells that this
\* row is not broken yet; epSet holds the flag kinds the episode has set.
PbkInit ==
  [DDR |-> 0, PBKeysMask |-> PBKEYS_LOWER,
   PBKeyState |-> PBKeyNotProcess, PBKeyHeldTimer |-> PBKEYHOLDTIME,
   PBKeyHeldFlgs |-> 0, PBKeyPrsdFlgs |-> 0, PBKeyCode |-> 0,
   op |-> "init", epClosed |-> 0, epRun |-> FALSE, epSet |-> {}]

\* no address framed yet
FrameIdle == [SlvAdrs |-> -1, w |-> -1, r |-> -1]

\* key 0 has not been closed yet.  closed: the scans in a row that read the
\* key closed, up to now; from: the state the key was in before the first of
\* them; pressedAt, heldAt: which of them set the pressed and the held flag
\* (0: none); nP, nH: how many of them did; ev: what the last scan set;
\* abort: the last scan read the key open before a row that started in
\* KEYPAD_IDLE had set the pressed flag.
PressIdle ==
  [closed |-> 0, from |-> KEYPAD_IDLE, pressedAt |-> 0, heldAt |-> 0,
   nP |-> 0, nH |-> 0, ev |-> {}, abort |-> FALSE]

\* no scan is running: the column pins are inputs, as after reset, and the
\* scan has driven none of them (driven: the pins it has driven low)
ScanIdle ==
  [pc |-> "idle", rowMask |-> 0, colMask |-> 0, numRows |-> 0, numCols |-> 0,
   row |-> 0, col |-> 0, rowMskTemp |-> 0, colMskTemp |-> 0,
   row_i |-> 0, col_i |-> 0, colDDR |-> 0, colPORT |-> 0, driven |-> 0]

\* volatile uint8_t uart_buffer[], tx_count = 0, tx_length = 0,
\* *buf_head = uart_buffer, *buf_tail = uart_buffer; pointers are kept as
\* indices into uart_buffer.  sent: the bytes written to UDR0, in order;
\* nacc: how many bytes the calls that passed the checks have brought.
UartInit ==
  [uart_buffer |-> [k \in 0 .. TX_BUFFER_LENGTH - 1 |-> 0],
   tx_count |-> 0, tx_length |-> 0, buf_head |-> 0, buf_tail |-> 0,
   TX_IN_PROGRESS |-> 0, UDRIE0 |-> FALSE, UDRE0 |-> TRUE,
   pc |-> "idle", P |-> FALSE, length |-> 0, buf |-> <<>>, i |-> 0,
   ret |-> -1, sent |-> <<>>, nacc |-> 0]

\* ------------------------------------------------------- specifications
InitCommon ==
  /\ fn = "none" /\ pc = "idle" /\ rc = 0 /\ ret = -1
  /\ SlvAdrs = ADXL345SlaveAdrs /\ len = 0 /\ adrs = 0
  /\ buf = [i \in 1 .. MaxLen |-> 8] /\ bp = 0
  /\ restarts = MAX_RESTARTS
  /\ len0 = 0 /\ buf0 = buf
  /\ sl = "idle" /\ ptr = 0
  /\ wrote = NoWrite
  /\ spy = SpyZero
  /\ pair = PairIdle
  /\ prim = PrimIdle
  /\ saved = <<>>
  /\ hang = FALSE
  /\ uart = UartInit
  /\ mk = MkInit
  /\ pbk = PbkInit
  /\ frame = FrameIdle
  /\ press = PressIdle
  /\ scan = ScanIdle

\* fault-injection harness: the peripheral may report any status
Init ==
  /\ InitCommon
  /\ hw = "fault"
  /\ mem = [r \in Regs |-> 8]

\* simulated slave: registers hold any bytes
InitSlave ==
  /\ InitCommon
  /\ hw = "slave"
  /\ mem \in [Regs -> ByteVals]

Next ==
  \/ CallWrite
  \/ i2c_write_Start
  \/ i2c_write_SlaW
  \/ i2c_write_Reg
  \/ i2c_write_Data
  \/ i2c_write_Stop
  \/ CallRead
  \/ i2c_read_Start
  \/ i2c_read_SlaW
  \/ i2c_read_Reg
  \/ i2c_read_RepStart
  \/ i2c_read_SlaR
  \/ i2c_read_Data
  \/ i2c_read_Stop
  \/ CallerResumes

Spec == Init /\ [][Next]_vars

SpecSlave == InitSlave /\ [][Next]_vars

\* The peripheral completes every operation it was given: each step of a
\* call in progress is eventually taken.
Step ==
  \/ i2c_write_Start \/ i2c_write_SlaW \/ i2c_write_Reg \/ i2c_write_Data
  \/ i2c_write_Stop
  \/ i2c_read_Start \/ i2c_read_SlaW \/ i2c_read_Reg \/ i2c_read_RepStart
  \/ i2c_read_SlaR \/ i2c_read_Data \/ i2c_read_Stop

SpecFair == Init /\ [][Next]_vars /\ WF_vars(Step)

\* ------------------------------------------------ the side-by-side run
i2cVars == <<fn, pc, rc, ret, SlvAdrs, len, adrs, buf, bp, restarts, len0,
             buf0, hw, sl, ptr, mem, wrote, spy, saved, farVars>>

\* Both functions are called with len >= 1 on the same bus.
PairBegin ==
  /\ pair = PairIdle
  /\ pair' = [w |-> [AddrIdle EXCEPT !.pc = "Start"],
              r |-> [AddrIdle EXCEPT !.pc = "Start"]]
  /\ UNCHANGED <<i2cVars, prim>>

\* Both are about to issue the same operation: the bus gives both the
\* same response.
PairStep ==
  /\ pair.w.pc = pair.r.pc /\ ~AddrOver(pair.w)
  /\ \E status \in TwStatus :
       pair' = [w |-> i2c_write_addr(pair.w, status),
                r |-> i2c_read_addr(pair.r, status)]
  /\ UNCHANGED <<i2cVars, prim>>

\* The two have parted: i2c_write goes on by itself.
PairWriteOn ==
  /\ pair.w.pc # pair.r.pc /\ ~AddrOver(pair.w)
  /\ \E status \in TwStatus :
       pair' = [pair EXCEPT !.w = i2c_write_addr(pair.w, status)]
  /\ UNCHANGED <<i2cVars, prim>>

\* The two have parted: i2c_read goes on by itself.
PairReadOn ==
  /\ pair.w.pc # pair.r.pc /\ ~AddrOver(pair.r)
  /\ \E status \in TwStatus :
       pair' = [pair EXCEPT !.r = i2c_read_addr(pair.r, status)]
  /\ UNCHANGED <<i2cVars, prim>>

\* Both are through the addressing phase (or have returned).
PairEnd ==
  /\ pair.w.pc # "idle" /\ AddrOver(pair.w) /\ AddrOver(pair.r)
  /\ pair' = PairIdle
  /\ UNCHANGED <<i2cVars, prim>>

NextPair ==
  \/ PairBegin
  \/ PairStep
  \/ PairWriteOn
  \/ PairReadOn
  \/ PairEnd

SpecPair == Init /\ [][NextPair]_vars

\* ------------------------------------------- the primitives by themselves
\* i2c_start() called with the bus idle or held, the peripheral reporting
\* status
ApplyStart ==
  /\ \E held \in BOOLEAN : \E status \in StartReports(held) :
       prim' = [prev |-> prim.cur,
                cur |-> [op |-> "start", held |-> held, status |-> status,
                         ret |-> i2c_start(status)]]
  /\ UNCHANGED <<i2cVars, pair>>

\* i2c_putchar(c) called inside a transaction, the peripheral reporting
\* status
ApplyPutchar ==
  /\ \E status \in TwStatus :
       prim' = [prev |-> prim.cur,
                cur |-> [op |-> "putchar", held |-> TRUE, status |-> status,
                         ret |-> i2c_putchar(status)]]
  /\ UNCHANGED <<i2cVars, pair>>

NextPrim ==
  \/ ApplyStart
  \/ ApplyPutchar

SpecPrim == Init /\ [][NextPrim]_vars

\* ---------------------------------------------- the drivers on the bus
\* The drivers of the sequencers together with the SSD1306 driver's
\* ssd1306_command.
NextDrv ==
  \/ Next
  \/ ssd1306_command_entry
  \/ ssd1306_command_Start
  \/ ssd1306_command_SlaW
  \/ ssd1306_command_Ctl
  \/ ssd1306_command_Cmd
  \/ ssd1306_command_Stop
  \/ ssd1306_command_return

SpecDrv == Init /\ [][NextDrv]_vars

\* ------------------------------------------- a second caller: interrupt
\* the running call's frame: its arguments, locals and position, and the
\* bus spy's record of it
Frame ==
  [fn |-> fn, pc |-> pc, rc |-> rc, ret |-> ret, SlvAdrs |-> SlvAdrs,
   len |-> len, adrs |-> adrs, buf |-> buf, bp |-> bp,
   restarts |-> restarts, len0 |-> len0, buf0 |-> buf0, spy |-> spy]

\* the running call holds the bus: it has issued a Start and no Stop
HoldsBus == pc \notin {"idle", "done"} /\ spy.n["Start"] >= 1 /\ spy.n["Stop"] = 0

\* the handler runs at most this many times during one foreground call
MaxIrq == 1

\* how many times the handler has run during the running call: each run
\* left one Stop in the trace of a call that has not stopped the bus itself
IrqRuns == Cardinality({k \in 1 .. Len(spy.trace) : spy.trace[k][1] = "Stop"})

\* an interrupt can be taken now
IrqOpen == HoldsBus /\ saved = <<>> /\ IrqRuns < MaxIrq

\* the handler's buffer
IsrBuf == [i \in 1 .. MaxLen |-> 165]

\* An interrupt handler runs while the foreground call holds the bus (the
\* handler itself is not interrupted) and calls i2c_write.
IsrWrite ==
  /\ IrqOpen
  /\ saved' = <<Frame>>
  /\ i2c_write_entry(ADXL345SlaveAdrs, 1, 1, IsrBuf)

\* The same, the handler calling i2c_read.
IsrRead ==
  /\ IrqOpen
  /\ saved' = <<Frame>>
  /\ i2c_read_entry(ADXL345SlaveAdrs, 1, 0, IsrBuf)

\* The handler's call has returned and the handler ends: the foreground
\* call goes on where it was. The spy puts what the handler did on the bus
\* into the foreground call's trace.
IsrReturn ==
  /\ pc = "done" /\ saved # <<>>
  /\ LET f == saved[1] IN
     /\ fn' = f.fn /\ pc' = f.pc /\ rc' = f.rc /\ ret' = f.ret
     /\ SlvAdrs' = f.SlvAdrs /\ len' = f.len /\ adrs' = f.adrs
     /\ buf' = f.buf /\ bp' = f.bp /\ restarts' = f.restarts
     /\ len0' = f.len0 /\ buf0' = f.buf0
     /\ spy' = [f.spy EXCEPT !.trace = @ \o spy.trace]
  /\ saved' = <<>>
  /\ UNCHANGED <<hw, sl, ptr, mem, wrote, otherVars>>

\* the foreground task's buffer
FgBuf == [i \in 1 .. MaxLen |-> 8]

\* The foreground task writes registers of the device.
FgWrite ==
  \E l \in 1 .. MaxLen :
    /\ pc = "idle"
    /\ i2c_write_entry(ADXL345SlaveAdrs, l, 0, FgBuf)
    /\ UNCHANGED saved

\* The foreground task reads registers of the device.
FgRead ==
  \E l \in 1 .. MaxLen :
    /\ pc = "idle"
    /\ i2c_read_entry(ADXL345SlaveAdrs, l, 0, FgBuf)
    /\ UNCHANGED saved

\* simulated slave, its registers as after power-up
InitIsr ==
  /\ InitCommon
  /\ hw = "slave"
  /\ mem = [r \in Regs |-> 8]

NextIsr ==
  \/ FgWrite
  \/ FgRead
  \/ Step
  \/ CallerResumes
  \/ IsrWrite
  \/ IsrRead
  \/ IsrReturn

SpecIsr == InitIsr /\ [][NextIsr]_vars

\* ------------------------------------------------------- a stuck bus
\* mutant: the poll loop gives up and the call returns an error
Poll_timeout ==
  /\ hang /\ pc \notin {"idle", "done"}
  /\ pc' = "done" /\ ret' = 1
  /\ UNCHANGED <<rc, len, buf, bp, restarts, sl, ptr, mem, spy>>
  /\ UNCHANGED callVars

\* while ((TWCR & _BV(TWINT)) == 0) { }  (i2c_stop: while (TWCR & _BV(TWSTO)))
\* -- one more look at the flag, which is not there
Poll ==
  /\ hang /\ pc \notin {"idle", "done"}
  /\ UNCHANGED vars

\* The operation the call issues next is one the peripheral will never
\* complete (a stuck bus).
BusSticks ==
  /\ ~hang /\ pc \notin {"idle", "done"}
  /\ hang' = TRUE
  /\ UNCHANGED <<fn, pc, rc, ret, SlvAdrs, len, adrs, buf, bp, restarts,
                 len0, buf0, hw, sl, ptr, mem, wrote, spy, saved, pair, prim,
                 uart, mk, pbk, lateVars>>

\* the sequencers on a bus that may stick: a step of a call is taken only
\* when the peripheral completes the operation
NextStuck ==
  \/ ~hang /\ CallWrite
  \/ ~hang /\ i2c_write_Start
  \/ ~hang /\ i2c_write_SlaW
  \/ ~hang /\ i2c_write_Reg
  \/ ~hang /\ i2c_write_Data
  \/ ~hang /\ i2c_write_Stop
  \/ ~hang /\ CallRead
  \/ ~hang /\ i2c_read_Start
  \/ ~hang /\ i2c_read_SlaW
  \/ ~hang /\ i2c_read_Reg
  \/ ~hang /\ i2c_read_RepStart
  \/ ~hang /\ i2c_read_SlaR
  \/ ~hang /\ i2c_read_Data
  \/ ~hang /\ i2c_read_Stop
  \/ ~hang /\ CallerResumes
  \/ BusSticks
  \/ Poll

SpecStuck == Init /\ [][NextStuck]_vars

\* ------------------------------------------------------- UART transmit
\* the values the caller offers: the bytes 1, 2, 3, ... in turn, so that
\* every accepted byte is told apart from every other
MaxBytes == 4

\* lengths the caller passes: none, short, and longer than the buffer
UartLens == {0, 1, 2, TX_BUFFER_LENGTH + 1}

\* what a read past the end of uart_buffer may yield
GarbageBytes == {0, 255}

\* everything but the UART
nonUart ==
  <<fn, pc, rc, ret, SlvAdrs, len, adrs, buf, bp, restarts, len0, buf0,
    hw, sl, ptr, mem, wrote, spy, saved, pair, prim, hang, mk, pbk, lateVars>>

\* *(buf_head): the bytes a read through buf_head may yield
HeadReads ==
  IF uart.buf_head < TX_BUFFER_LENGTH
    THEN {uart.uart_buffer[uart.buf_head]}
    ELSE GarbageBytes

\* the free-space test of uart_write
NoRoom(length) ==
  \/ /\ uart.buf_tail > uart.buf_head
     /\ length > TX_BUFFER_LENGTH - (uart.buf_tail - uart.buf_head)
  \/ /\ uart.buf_tail < uart.buf_head
     /\ length > uart.buf_head - uart.buf_tail - 1

\* the caller has no more than max bytes to send in all
UartOffers(length, max) ==
  length > TX_BUFFER_LENGTH \/ uart.nacc + length <= max

\* uart_write(length, buf) / uart_write_P(length, buf): the call and its
\* checks
uart_write_entry(P, length) ==
  /\ uart.pc = "idle"
  /\ LET call == [uart EXCEPT !.P = P, !.length = length, !.i = 0,
                    !.buf = [k \in 1 .. length |-> U8(uart.nacc + k)]]
     IN uart' =
          IF length = 0 \/ length > TX_BUFFER_LENGTH
            THEN [call EXCEPT !.pc = "done", !.ret = 255]
          ELSE IF NoRoom(length)
            THEN [call EXCEPT !.pc = "done", !.ret = length]
          ELSE [call EXCEPT !.pc = "addlen", !.nacc = uart.nacc + length]
  /\ UNCHANGED nonUart

\* tx_length += length;
uart_write_addlen ==
  /\ uart.pc = "addlen"
  /\ uart' = [uart EXCEPT !.tx_length = U8(uart.tx_length + uart.length),
                !.pc = "copy"]
  /\ UNCHANGED nonUart

\* *(buf_tail++) = buf[i]; if (buf_tail > uart_buffer + TX_BUFFER_LENGTH - 1)
\* buf_tail = uart_buffer;  -- one round of the for loop
uart_write_copy ==
  /\ uart.pc = "copy"
  /\ IF uart.i < uart.length
       THEN uart' =
              [uart EXCEPT
                 !.uart_buffer[uart.buf_tail] = uart.buf[uart.i + 1],
                 !.buf_tail = IF uart.buf_tail + 1 > TX_BUFFER_LENGTH - 1
                                THEN 0 ELSE uart.buf_tail + 1,
                 !.i = uart.i + 1]
       ELSE uart' = [uart EXCEPT !.pc = "test"]
  /\ UNCHANGED nonUart

\* if (usart_status.TX_IN_PROGRESS == 0)
uart_write_test ==
  /\ uart.pc = "test"
  /\ uart' = [uart EXCEPT
                !.pc = IF uart.TX_IN_PROGRESS = 0 THEN "wait" ELSE "ret0"]
  /\ UNCHANGED nonUart

\* while (!(UCSR0A & _BV(UDRE0)));
uart_write_wait ==
  /\ uart.pc = "wait"
  /\ uart.UDRE0
  /\ uart' = [uart EXCEPT !.pc = "load"]
  /\ UNCHANGED nonUart

\* UDR0 = *(buf_head++);
uart_write_load ==
  /\ uart.pc = "load"
  /\ \E c \in HeadReads :
       uart' = [uart EXCEPT !.sent = Append(uart.sent, c),
                  !.UDRE0 = FALSE,
                  !.buf_head = uart.buf_head + 1,
                  !.pc = "count"]
  /\ UNCHANGED nonUart

\* tx_count++;
uart_write_count ==
  /\ uart.pc = "count"
  /\ uart' = [uart EXCEPT !.tx_count = U8(uart.tx_count + 1),
                !.pc = "enable"]
  /\ UNCHANGED nonUart

\* UCSR0B |= _BV(UDRIE0);
uart_write_enable ==
  /\ uart.pc = "enable"
  /\ uart' = [uart EXCEPT !.UDRIE0 = TRUE, !.pc = "flag"]
  /\ UNCHANGED nonUart

\* usart_status.TX_IN_PROGRESS = 1;
uart_write_flag ==
  /\ uart.pc = "flag"
  /\ uart' = [uart EXCEPT !.TX_IN_PROGRESS = 1, !.pc = "ret0"]
  /\ UNCHANGED nonUart

\* return(0);
uart_write_return ==
  /\ uart.pc = "ret0"
  /\ uart' = [uart EXCEPT !.pc = "done", !.ret = 0]
  /\ UNCHANGED nonUart

\* the caller goes on after the call
UartCallerResumes ==
  /\ uart.pc = "done"
  /\ uart' = [uart EXCEPT !.pc = "idle"]
  /\ UNCHANGED nonUart

\* the data register empty interrupt is pending: it is taken before the
\* next step of the foreground
UdreIrq == uart.UDRIE0 /\ uart.UDRE0

\* ISR(USART_UDRE_vect): runs whenever the data register is empty and its
\* interrupt is enabled, between any two steps of the foreground
USART_UDRE_vect ==
  /\ UdreIrq
  /\ IF uart.tx_count < uart.tx_length
       THEN \E c \in HeadReads :
              uart' = [uart EXCEPT !.sent = Append(uart.sent, c),
                         !.UDRE0 = FALSE,
                         !.buf_head =
                            IF uart.buf_head + 1 > TX_BUFFER_LENGTH - 1
                              THEN 0 ELSE uart.buf_head + 1,
                         !.tx_count = U8(uart.tx_count + 1)]
       ELSE uart' = [uart EXCEPT !.UDRIE0 = FALSE, !.tx_count = 0,
                       !.tx_length = 0, !.TX_IN_PROGRESS = 0]
  /\ UNCHANGED nonUart

\* the transmitter moves the byte out of the data register
UartShift ==
  /\ ~uart.UDRE0
  /\ uart' = [uart EXCEPT !.UDRE0 = TRUE]
  /\ UNCHANGED nonUart

NextUart ==
  \/ ~UdreIrq /\ \E P \in BOOLEAN, length \in UartLens :
                   UartOffers(length, MaxBytes) /\ uart_write_entry(P, length)
  \/ ~UdreIrq /\ uart_write_addlen
  \/ ~UdreIrq /\ uart_write_copy
  \/ ~UdreIrq /\ uart_write_test
  \/ ~UdreIrq /\ uart_write_wait
  \/ ~UdreIrq /\ uart_write_load
  \/ ~UdreIrq /\ uart_write_count
  \/ ~UdreIrq /\ uart_write_enable
  \/ ~UdreIrq /\ uart_write_flag
  \/ ~UdreIrq /\ uart_write_return
  \/ ~UdreIrq /\ UartCallerResumes
  \/ USART_UDRE_vect
  \/ UartShift

SpecUart == Init /\ [][NextUart]_vars

\* a burst of calls that is over before the transmitter has moved the first
\* byte out of the data register: no interrupt is taken during the burst
MaxBurst == 18

UartBurstLens == {1, 2, TX_BUFFER_LENGTH - 1}

NextUartBurst ==
  \/ \E P \in BOOLEAN, length \in UartBurstLens :
       UartOffers(length, MaxBurst) /\ uart_write_entry(P, length)
  \/ uart_write_addlen
  \/ uart_write_copy
  \/ uart_write_test
  \/ uart_write_wait
  \/ uart_write_load
  \/ uart_write_count
  \/ uart_write_enable
  \/ uart_write_flag
  \/ uart_write_return
  \/ UartCallerResumes

SpecUartBurst == Init /\ [][NextUartBurst]_vars

\* ------------------------------------------------------- matrix keypad
\* everything but the keypad
nonMk ==
  <<fn, pc, rc, ret, SlvAdrs, len, adrs, buf, bp, restarts, len0, buf0,
    hw, sl, ptr, mem, wrote, spy, saved, pair, prim, hang, uart, pbk, lateVars>>

\* mutant: a pressed key that is still closed counts as held at once
PressedCase_nowait(k, closed) ==
  IF closed
    THEN [k EXCEPT !.holdTimer = 0,
                   !.state = KEYPAD_HELD,
                   !.flags = BitOr(@, BitOr(KEY_HELD_FLAG,
                                            KEY_CHANGED_FLAG))]
    ELSE [k EXCEPT !.state = KEYPAD_RLSD_NDBNC,
                   !.debounceTimer = mk.keyDebounceTime]

\* case KEYPAD_PRESSED:
PressedCase(k, closed) ==
  IF closed
    THEN IF U16(k.holdTimer - 1) = 0
           THEN [k EXCEPT !.holdTimer = 0,
                          !.state = KEYPAD_HELD,
                          !.flags = BitOr(@, BitOr(KEY_HELD_FLAG,
                                                   KEY_CHANGED_FLAG))]
           ELSE [k EXCEPT !.holdTimer = U16(@ - 1)]
    ELSE [k EXCEPT !.state = KEYPAD_RLSD_NDBNC,
                   !.debounceTimer = mk.keyDebounceTime]

\* the switch of matrix_keypad_scan_keys for one key: closed stands for
\* curRowPin == 0
ScanKey(k, closed) ==
  IF k.state = KEYPAD_IDLE THEN
    IF closed
      THEN [k EXCEPT !.state = KEYPAD_PRSD_NDBNC,
                     !.debounceTimer = mk.keyDebounceTime]
      ELSE k
  ELSE IF k.state = KEYPAD_PRSD_NDBNC THEN
    IF closed
      THEN IF U8(k.debounceTimer - 1) = 0
             THEN [k EXCEPT !.debounceTimer = 0,
                            !.state = KEYPAD_PRESSED,
                            !.flags = BitOr(@, BitOr(KEY_PRESSED_FLAG,
                                                     KEY_CHANGED_FLAG)),
                            !.holdTimer = mk.keyHoldTime]
             ELSE [k EXCEPT !.debounceTimer = U8(@ - 1)]
      ELSE [k EXCEPT !.state = KEYPAD_IDLE]
  ELSE IF k.state = KEYPAD_PRESSED THEN
    PressedCase(k, closed)
  ELSE IF k.state = KEYPAD_HELD THEN
    IF ~closed
      THEN [k EXCEPT !.state = KEYPAD_RLSD_NDBNC,
                     !.debounceTimer = mk.keyDebounceTime]
      ELSE k
  ELSE IF k.state = KEYPAD_RLSD_NDBNC THEN
    IF ~closed
      THEN IF U8(k.debounceTimer - 1) = 0
             THEN [k EXCEPT !.debounceTimer = 0,
                            !.state = KEYPAD_IDLE,
                            !.flags = BitOr(@, KEY_CHANGED_FLAG)]
             ELSE [k EXCEPT !.debounceTimer = U8(@ - 1)]
      ELSE k
  ELSE [k EXCEPT !.state = KEYPAD_IDLE]

\* validKey = 1 where the switch sets the pressed or the held flag
ScanValid(k, closed) ==
  \/ k.state = KEYPAD_PRSD_NDBNC /\ closed /\ U8(k.debounceTimer - 1) = 0
  \/ k.state = KEYPAD_PRESSED /\ closed /\ U16(k.holdTimer - 1) = 0

\* matrix_keypad_scan_keys(): every key is looked at once, key
\* row * numCols + col with the row pin read while its column is driven;
\* down is the set of keys whose contact is closed
ScanResult(down) ==
  [mk EXCEPT
     !.key = [i \in MkKeys |-> ScanKey(mk.key[i], i \in down)],
     !.ret = IF \E i \in MkKeys : ScanValid(mk.key[i], i \in down)
               THEN 1 ELSE 0,
     !.op = "scan"]

matrix_keypad_scan_keys(down) ==
  /\ mk' = ScanResult(down)
  /\ UNCHANGED nonMk

\* mutant: the flag is left set
RECURSIVE GetLoop_keeps(_, _, _)
GetLoop_keeps(F, i, st) ==
  IF i >= mk.numCols * mk.numRows THEN st
  ELSE IF BitAnd(st.key[i].flags, F) # 0
    THEN GetLoop_keeps(F, i + 1,
           [st EXCEPT !.keyStr[st.j] = st.key[i].code,
                      !.j = st.j + 1,
                      !.validKey = 1])
    ELSE GetLoop_keeps(F, i + 1, st)

\* mutant: the other flags of the key are cleared too
RECURSIVE GetLoop_clears_all(_, _, _)
GetLoop_clears_all(F, i, st) ==
  IF i >= mk.numCols * mk.numRows THEN st
  ELSE IF BitAnd(st.key[i].flags, F) # 0
    THEN GetLoop_clears_all(F, i + 1,
           [st EXCEPT !.keyStr[st.j] = st.key[i].code,
                      !.j = st.j + 1,
                      !.key[i].flags = 0,
                      !.validKey = 1])
    ELSE GetLoop_clears_all(F, i + 1, st)

\* for (i = 0; i < numCols * numRows; i++) if ((key[i].flags & F) != 0)
\* { keyStr[j++] = key[i].code; key[i].flags &= ~F; validKey = 1; }
RECURSIVE GetLoop(_, _, _)
GetLoop(F, i, st) ==
  IF i >= mk.numCols * mk.numRows THEN st
  ELSE IF BitAnd(st.key[i].flags, F) # 0
    THEN GetLoop(F, i + 1,
           [st EXCEPT !.keyStr[st.j] = st.key[i].code,
                      !.j = st.j + 1,
                      !.key[i].flags = BitAnd(@, BitNot(F)),
                      !.validKey = 1])
    ELSE GetLoop(F, i + 1, st)

\* the body the two get functions share
GetKeys(F, name) ==
  LET r == GetLoop(F, 0, [key |-> mk.key,
                          keyStr |-> [mk.keyStr EXCEPT ![0] = 0],
                          j |-> 0, validKey |-> 0])
  IN mk' = [mk EXCEPT !.key = r.key,
                      !.keyStr = [r.keyStr EXCEPT ![r.j] = 0],
                      !.ret = r.validKey,
                      !.op = name]

\* matrix_keypad_get_pressed_keys(keyStr)
matrix_keypad_get_pressed_keys ==
  /\ GetKeys(KEY_PRESSED_FLAG, "pressed")
  /\ UNCHANGED nonMk

\* matrix_keypad_get_held_keys(keyStr)
matrix_keypad_get_held_keys ==
  /\ GetKeys(KEY_HELD_FLAG, "held")
  /\ UNCHANGED nonMk

NextMk ==
  \/ \E down \in SUBSET MkKeys : matrix_keypad_scan_keys(down)
  \/ matrix_keypad_get_pressed_keys
  \/ matrix_keypad_get_held_keys

SpecMk == Init /\ [][NextMk]_vars

\* ------------------------------------------- multiplexed pushbutton keys
\* everything but the pushbutton keys
nonPbk ==
  <<fn, pc, rc, ret, SlvAdrs, len, adrs, buf, bp, restarts, len0, buf0,
    hw, sl, ptr, mem, wrote, spy, saved, pair, prim, hang, uart, mk, lateVars>>

\* what the PIN register may read: no key, key 1, key 2, both, and key 1
\* with the pin of another device low
PinVals == {255, 254, 253, 252, 126}

\* what the application writes to the DDR register of the port
DdrVals == {0, 160}

\* the episode account stops counting here
EpCap == PBKEYHOLDTIME + 3

\* (~(*PBKeysPIN) & PBKeysMask)
KeysRead(pin) == BitAnd(BitNot(pin), pbk.PBKeysMask)

\* mutant: a key released after the hold time sets its pressed flag too
HeldOpenCase_pressed(s, same) ==
  IF same
    THEN s
    ELSE [s EXCEPT !.PBKeyState = PBKeyNotProcess,
                   !.PBKeyPrsdFlgs = BitOr(@, s.PBKeyCode),
                   !.epSet = @ \cup {"Pressed"}]

\* case PBKeyHeldOpenNotDbncd:
HeldOpenCase(s, same) ==
  IF same
    THEN s
    ELSE [s EXCEPT !.PBKeyState = PBKeyNotProcess]

\* mutant: the hold timer is not wound up again
PrsdOpenCase_unwound(s, same) ==
  IF ~same
    THEN [s EXCEPT !.PBKeyState = PBKeyNotProcess,
                   !.PBKeyPrsdFlgs = BitOr(@, s.PBKeyCode),
                   !.epSet = @ \cup {"Pressed"}]
    ELSE s

\* case PBKeyPrsdOpenNotDbncd:
PrsdOpenCase(s, same) ==
  IF ~same
    THEN [s EXCEPT !.PBKeyHeldTimer = PBKEYHOLDTIME,
                   !.PBKeyState = PBKeyNotProcess,
                   !.PBKeyPrsdFlgs = BitOr(@, s.PBKeyCode),
                   !.epSet = @ \cup {"Pressed"}]
    ELSE s

\* if (PBKeyState) switch (PBKeyState) { ... } else { ... }
RunSwitch(s, pin) ==
  LET same == KeysRead(pin) = s.PBKeyCode
  IN IF s.PBKeyState = PBKeyClsdNotDbncd THEN
       [s EXCEPT !.PBKeyState = IF same THEN PBKeyPressed
                                        ELSE PBKeyNotProcess]
     ELSE IF s.PBKeyState = PBKeyPressed THEN
       IF same
         THEN IF U8(s.PBKeyHeldTimer - 1) = 0
                THEN [s EXCEPT !.PBKeyHeldTimer = PBKEYHOLDTIME,
                               !.PBKeyState = PBKeyHeld,
                               !.PBKeyHeldFlgs = BitOr(@, s.PBKeyCode),
                               !.epSet = @ \cup {"Held"}]
                ELSE [s EXCEPT !.PBKeyHeldTimer = U8(@ - 1)]
         ELSE [s EXCEPT !.PBKeyState = PBKeyPrsdOpenNotDbncd]
     ELSE IF s.PBKeyState = PBKeyHeld THEN
       IF ~same
         THEN [s EXCEPT !.PBKeyState = PBKeyHeldOpenNotDbncd]
         ELSE s
     ELSE IF s.PBKeyState = PBKeyPrsdOpenNotDbncd THEN
       PrsdOpenCase(s, same)
     ELSE IF s.PBKeyState = PBKeyHeldOpenNotDbncd THEN
       HeldOpenCase(s, same)
     ELSE IF s.PBKeyState = PBKeyNotProcess THEN
       IF KeysRead(pin) # 0
         THEN [s EXCEPT !.PBKeyCode = KeysRead(pin),
                        !.PBKeyState = PBKeyClsdNotDbncd,
                        !.epClosed = 0, !.epRun = TRUE, !.epSet = {}]
         ELSE s
     ELSE s

\* the account of the episode after one more reading
EpCount(s, pin) ==
  IF s.epRun /\ KeysRead(pin) = s.PBKeyCode
    THEN [s EXCEPT !.epClosed = IF @ < EpCap THEN @ + 1 ELSE @]
    ELSE [s EXCEPT !.epRun = FALSE]

\* mutant: the key pins are left as inputs
pbmxkeys_run_input(pin) ==
  /\ pbk' = [EpCount(RunSwitch(
               [pbk EXCEPT !.DDR = BitAnd(@, BitNot(pbk.PBKeysMask))], pin),
               pin)
               EXCEPT !.op = "run"]
  /\ UNCHANGED nonPbk

\* pbmxkeys_run(): *PBKeysDDR &= ~PBKeysMask; the state machine;
\* *PBKeysDDR |= PBKeysMask;
pbmxkeys_run(pin) ==
  /\ pbk' = [EpCount(RunSwitch(
               [pbk EXCEPT !.DDR = BitAnd(@, BitNot(pbk.PBKeysMask))], pin),
               pin)
               EXCEPT !.DDR = BitOr(@, pbk.PBKeysMask), !.op = "run"]
  /\ UNCHANGED nonPbk

\* pbmxkeys_clear()
pbmxkeys_clear ==
  /\ pbk' = [pbk EXCEPT !.PBKeyHeldFlgs = 0, !.PBKeyPrsdFlgs = 0,
                        !.op = "clear"]
  /\ UNCHANGED nonPbk

\* the application sets the direction of the port for the other device
AppSetsDDR(v) ==
  /\ pbk' = [pbk EXCEPT !.DDR = v, !.op = "ddr"]
  /\ UNCHANGED nonPbk

NextPbk ==
  \/ \E pin \in PinVals : pbmxkeys_run(pin)
  \/ pbmxkeys_clear
  \/ \E v \in DdrVals : AppSetsDDR(v)

SpecPbk == Init /\ [][NextPbk]_vars

\* ------------------------------------------- one key of the keypad, timed
\* everything but the keypad and its watch
nonMkPress ==
  <<fn, pc, rc, ret, SlvAdrs, len, adrs, buf, bp, restarts, len0, buf0,
    hw, sl, ptr, mem, wrote, spy, saved, pair, prim, hang, uart, pbk, frame,
    scan>>

\* the debounce and hold times the application configures
DebounceVals == {0, 1, 2}

HoldVals == {1, 2, 3}

\* the watch stops counting here
MaxRun == 262

\* matrix_keypad_set_debounce_time(time)
matrix_keypad_set_debounce_time(time) ==
  /\ mk' = [mk EXCEPT !.keyDebounceTime = time, !.op = "config"]
  /\ UNCHANGED nonMk

\* matrix_keypad_set_hold_time(time)
matrix_keypad_set_hold_time(time) ==
  /\ mk' = [mk EXCEPT !.keyHoldTime = time, !.op = "config"]
  /\ UNCHANGED nonMk

\* the watch after a scan that took key 0 from a to b
Watch(a, b, closed) ==
  LET evP == /\ a.state = KEYPAD_PRSD_NDBNC /\ b.state = KEYPAD_PRESSED
             /\ (b.flags \div KEY_PRESSED_FLAG) % 2 = 1
      evH == /\ a.state = KEYPAD_PRESSED /\ b.state = KEYPAD_HELD
             /\ (b.flags \div KEY_HELD_FLAG) % 2 = 1
      ev == (IF evP THEN {"pressed"} ELSE {}) \cup
            (IF evH THEN {"held"} ELSE {})
      n == IF press.closed = 0 THEN 1
           ELSE IF press.closed < MaxRun THEN press.closed + 1
           ELSE press.closed
      old == IF press.closed = 0
               THEN [PressIdle EXCEPT !.from = a.state]
               ELSE press
  IN IF closed
       THEN [old EXCEPT
               !.closed = n,
               !.pressedAt = IF evP /\ @ = 0 THEN n ELSE @,
               !.heldAt = IF evH /\ @ = 0 THEN n ELSE @,
               !.nP = IF evP /\ @ < 2 THEN @ + 1 ELSE @,
               !.nH = IF evH /\ @ < 2 THEN @ + 1 ELSE @,
               !.ev = ev, !.abort = FALSE]
       ELSE [PressIdle EXCEPT
               !.ev = ev,
               !.abort = /\ press.closed > 0
                         /\ press.from = KEYPAD_IDLE
                         /\ press.pressedAt = 0]

\* matrix_keypad_scan_keys() with key 0 watched
ScanWatched(down) ==
  /\ mk' = ScanResult(down)
  /\ press' = Watch(mk.key[0], mk'.key[0], 0 \in down)
  /\ UNCHANGED nonMkPress

\* the application sets the times before it starts to scan; only key 0 is
\* operated
NextMkTime ==
  \/ /\ mk.op \in {"init", "config"}
     /\ \E time \in DebounceVals : matrix_keypad_set_debounce_time(time)
  \/ /\ mk.op \in {"init", "config"}
     /\ \E time \in HoldVals : matrix_keypad_set_hold_time(time)
  \/ \E down \in SUBSET {0} : ScanWatched(down)

SpecMkTime == Init /\ [][NextMkTime]_vars

\* ------------------------------------ the scan loops at the column port
\* everything but the scan
nonScan ==
  <<fn, pc, rc, ret, SlvAdrs, len, adrs, buf, bp, restarts, len0, buf0,
    hw, sl, ptr, mem, wrote, spy, saved, pair, prim, hang, uart, mk, pbk,
    frame, press>>

\* the masks and the numbers of rows and columns matrix_keypad_init() is
\* given; rows * cols keys fit key[MATRIX_KEYPAD_MAX_KEYS]
MATRIX_KEYPAD_MAX_KEYS == 16

MaskVals == {0, 1, 5, 255}

NumVals == {0, 1, 2, 9}

\* matrix_keypad_init(rowPt, rowMsk, colPt, colMsk, keyCodes, rows, cols),
\* as far as the scan loops use it
matrix_keypad_init(rowMsk, colMsk, rows, cols) ==
  /\ scan.pc = "idle"
  /\ rows * cols <= MATRIX_KEYPAD_MAX_KEYS
  /\ scan' = [ScanIdle EXCEPT !.pc = "entry",
                              !.rowMask = rowMsk, !.colMask = colMsk,
                              !.numRows = rows, !.numCols = cols]
  /\ UNCHANGED nonScan

\* validKey = 0; colMskTemp = 1; col_i = 8; for(col = 0; ...
scan_entry ==
  /\ scan.pc = "entry"
  /\ scan' = [scan EXCEPT !.colMskTemp = 1, !.col_i = 8, !.col = 0,
                          !.pc = "col"]
  /\ UNCHANGED nonScan

\* for(...; col < numCols; ...): one turn of
\* while((colMask & colMskTemp) == 0), or the column pin made output and
\* low and the row loop entered; after the last column return(validKey)
scan_col ==
  /\ scan.pc = "col"
  /\ scan' =
       IF scan.col >= scan.numCols
         THEN [scan EXCEPT !.pc = "done"]
       ELSE IF BitAnd(scan.colMask, scan.colMskTemp) = 0
         THEN [scan EXCEPT !.colMskTemp = U8(@ * 2),
                           !.col_i = U8(@ - 1),
                           !.pc = IF U8(scan.col_i - 1) = 0
                                    THEN "done" ELSE "col"]
       ELSE [scan EXCEPT !.colDDR = BitOr(@, scan.colMskTemp),
                         !.colPORT = BitAnd(@, BitNot(scan.colMskTemp)),
                         !.driven = BitOr(@, scan.colMskTemp),
                         !.rowMskTemp = 1, !.row_i = 8, !.row = 0,
                         !.pc = "row"]
  /\ UNCHANGED nonScan

\* *colPORT |= colMskTemp; *colDDR &= ~colMskTemp; colMskTemp <<= 1;
\* col_i--; col++
ColumnDone ==
  [scan EXCEPT !.colPORT = BitOr(@, scan.colMskTemp),
               !.colDDR = BitAnd(@, BitNot(scan.colMskTemp)),
               !.colMskTemp = U8(@ * 2),
               !.col_i = U8(@ - 1),
               !.col = @ + 1,
               !.pc = "col"]

\* for(...; row < numRows; ...): one turn of
\* while((rowMask & rowMskTemp) == 0), or the key at this row and column
\* handled (ScanKey: it uses no port but *rowPIN) and the next row taken;
\* after the last row the column pin is made high and input
scan_row ==
  /\ scan.pc = "row"
  /\ scan' =
       IF scan.row >= scan.numRows
         THEN ColumnDone
       ELSE IF BitAnd(scan.rowMask, scan.rowMskTemp) = 0
         THEN [scan EXCEPT !.rowMskTemp = U8(@ * 2),
                           !.row_i = U8(@ - 1),
                           !.pc = IF U8(scan.row_i - 1) = 0
                                    THEN "done" ELSE "row"]
       ELSE [scan EXCEPT !.rowMskTemp = U8(@ * 2),
                         !.row_i = U8(@ - 1),
                         !.row = @ + 1]
  /\ UNCHANGED nonScan

\* the scan has returned; the program is started again
scan_return ==
  /\ scan.pc = "done"
  /\ scan' = ScanIdle
  /\ UNCHANGED nonScan

ScanSteps ==
  \/ scan_entry
  \/ scan_col
  \/ scan_row

NextScan ==
  \/ \E rowMsk \in MaskVals, colMsk \in MaskVals,
        rows \in NumVals, cols \in NumVals :
        matrix_keypad_init(rowMsk, colMsk, rows, cols)
  \/ ScanSteps
  \/ scan_return

SpecScan == Init /\ [][NextScan]_vars

\* the scan is not preempted for ever
SpecScanLive == SpecScan /\ WF_vars(ScanSteps)

\* ------------------------------------------------- address framing
\* everything but the framing by itself
nonFrame ==
  <<fn, pc, rc, ret, SlvAdrs, len, adrs, buf, bp, restarts, len0, buf0,
    hw, sl, ptr, mem, wrote, spy, saved, pair, prim, hang, uart, mk, pbk, press,
    scan>>

\* the values a uint8_t SlvAdrs can take
AllAdrs == 0 .. 255

\* i2c_read called with slave address a: the byte of
\* i2c_putchar((SlvAdrs<<1)|TW_WRITE) and, after the repeated Start, of
\* i2c_putchar((SlvAdrs<<1)|TW_READ)
ApplyFrame(a) ==
  /\ frame' = [SlvAdrs |-> a, w |-> SlaFrame(a, TW_WRITE),
                r |-> SlaFrame(a, TW_READ)]
  /\ UNCHANGED nonFrame

NextFrame == \E a \in AllAdrs : ApplyFrame(a)

SpecFrame == Init /\ [][NextFrame]_vars

\* ================================================================ claims
Returned == pc = "done"

InCall == pc \notin {"idle", "done"}

\* ---------------------------------------------------------------- C1
\* C1: every call of i2c_write or i2c_read with len >= 1 has issued exactly
\* one Stop condition when it returns, on the success path and on every
\* failure exit.
C1_OneStopPerCall ==
  (Returned /\ len0 >= 1) => spy.n["Stop"] = 1

\* ---------------------------------------------------------------- C2
\* C2: with len = 0 both sequencers return 0 without any bus operation and
\* without touching the caller's buffer.
C2_ZeroLengthNoOp ==
  (Returned /\ len0 = 0) => (ret = 0 /\ spy = SpyZero /\ buf = buf0)

C2_Witness ==
  Returned /\ len0 = 0 /\ fn = "read" /\ buf[1] # buf[MaxLen]

\* ---------------------------------------------------------------- C3
\* C3: when every Start is accepted and every write-address frame is
\* rejected, the call returns 2 after exactly MAX_RESTARTS Start conditions.
C3_AddressNackStarts ==
  (Returned /\ len0 >= 1 /\ spy.rej["Start"] = 0
            /\ spy.rej["SlaW"] = spy.n["SlaW"])
    => (ret = 2 /\ spy.n["Start"] = MAX_RESTARTS)

\* ---------------------------------------------------------------- C4
\* C4: when every Start is rejected, the call issues at most MAX_RESTARTS
\* Starts, puts no byte on the bus, issues a Stop and then returns 1.
C4_StartRejected ==
  (Returned /\ len0 >= 1 /\ spy.rej["Start"] = spy.n["Start"])
    => /\ spy.n["Start"] <= MAX_RESTARTS
       /\ spy.n["SlaW"] = 0 /\ spy.n["Reg"] = 0 /\ spy.n["Data"] = 0
       /\ spy.n["SlaR"] = 0
       /\ spy.n["Stop"] = 1 /\ spy.last[1] = "Stop"
       /\ ret = 1

\* ---------------------------------------------------------------- C5
\* C5: the register-address byte is the operation that follows an ACKed
\* write-address frame, it is put on the bus only right after such a frame
\* (never after a frame that was not ACKed), and no data byte is sent or
\* received before it has been sent.
C5_RegAfterAck ==
  [][/\ (spy'.n["Reg"] > spy.n["Reg"]) => spy.last = <<"SlaW", "ok">>
     /\ (spy.last = <<"SlaW", "ok">> /\ spy' # spy /\ pc' # "idle")
          => spy'.last[1] = "Reg"
     /\ (spy'.n["Data"] > spy.n["Data"] \/ Len(spy'.rx) > Len(spy.rx))
          => spy.n["Reg"] = 1]_vars

C5_Witness ==
  /\ spy.last[1] = "Reg"
  /\ spy.rej["SlaW"] > 0 /\ spy.rej["Start"] > 0

\* ---------------------------------------------------------------- C6
\* C6: a successful i2c_read of k >= 1 bytes has received k-1 bytes with
\* an acknowledge and then one byte without, in that order, and buf[0..k-1]
\* holds the received bytes in arrival order.
C6_ReadAckPattern ==
  (fn = "read" /\ Returned /\ ret = 0 /\ len0 >= 1)
    => /\ Len(spy.rx) = len0
       /\ spy.n["GetAck"] = len0 - 1 /\ spy.n["GetNack"] = 1
       /\ \A i \in 1 .. (len0 - 1) : spy.rx[i][1] = "GetAck"
       /\ spy.rx[len0][1] = "GetNack"
       /\ \A i \in 1 .. len0 : buf[i] = spy.rx[i][2]

C6_Witness ==
  /\ fn = "read" /\ Returned /\ ret = 0 /\ len0 = MaxLen
  /\ spy.rx[1][2] # spy.rx[len0][2]
  /\ buf # buf0

\* ---------------------------------------------------------------- C7
\* C7: against the contention-free slave, a read of n bytes at register reg
\* that follows a write of n bytes at reg which returned 0 returns 0 and
\* leaves in buf[0..n-1] the bytes that were written.
C7_RoundTrip ==
  (fn = "read" /\ Returned /\ len0 >= 1
     /\ wrote.n = len0 /\ wrote.adrs = adrs /\ wrote.s = SlvAdrs)
    => (ret = 0 /\ SubSeq(buf, 1, len0) = wrote.data)

C7_Witness ==
  /\ fn = "read" /\ Returned /\ ret = 0 /\ len0 = MaxLen
  /\ wrote.n = len0 /\ wrote.adrs = adrs /\ wrote.s = SlvAdrs
  /\ SubSeq(buf, 1, len0) # SubSeq(buf0, 1, len0)
  /\ wrote.data[1] # wrote.data[len0]

\* ---------------------------------------------------------------- C8
\* the rejections that used up retry budget
Retried == spy.rej["Start"] + spy.rej["SlaW"]

\* what the codes other than 0 say, as the claim states it
C8_FailureCodes ==
  /\ ret \in 0 .. 5
  /\ ret = 1 => /\ spy.lastRej = "Start" /\ Retried >= MAX_RESTARTS
                /\ spy.last \in {<<"Start", "rej">>, <<"Stop", "ok">>}
  /\ ret = 2 => /\ spy.lastRej = "SlaW" /\ Retried >= MAX_RESTARTS
                /\ spy.last = <<"Stop", "ok">>
  /\ ret = 3 => spy.lastRej = "Reg" /\ spy.last[1] = "Reg"
  /\ (ret = 4 /\ fn = "write") => spy.lastRej = "Data" /\ spy.last[1] = "Data"
  /\ (ret = 4 /\ fn = "read")
       => spy.lastRej = "RepStart" /\ spy.last[1] = "RepStart"
  /\ ret = 5 => fn = "read" /\ spy.lastRej = "SlaR" /\ spy.last[1] = "SlaR"

\* C8 as stated: 0 only if every issued operation succeeded, and each other
\* code names one failure point.
C8_AsStated ==
  (Returned /\ len0 >= 1)
    => /\ ret = 0 => \A k \in Kinds : spy.rej[k] = 0
       /\ C8_FailureCodes

\* C8 as amended: 0 only if every operation of the last attempt succeeded
\* (the last Start, the write-address frame after it, the register-address
\* byte and everything after it); Starts and write-address frames that were
\* rejected and retried within the budget do not prevent 0.  Each other code
\* names one failure point.
C8_StatusIdentifiesFailure ==
  (Returned /\ len0 >= 1)
    => /\ ret = 0 => /\ spy.last = <<"Stop", "ok">>
                     /\ \A k \in Kinds \ {"Start", "SlaW"} : spy.rej[k] = 0
                     /\ spy.n["SlaW"] = spy.rej["SlaW"] + 1
                     /\ spy.n["Start"] = spy.rej["Start"] + spy.n["SlaW"]
                     /\ spy.n["Reg"] = 1
                     /\ fn = "write" => spy.n["Data"] = len0
                     /\ fn = "read" => /\ spy.n["RepStart"] = 1
                                       /\ spy.n["SlaR"] = 1
       /\ C8_FailureCodes

C8_Witness ==
  Returned /\ len0 >= 1 /\ ret = 0 /\ spy.rej["Start"] > 0 /\ spy.rej["SlaW"] > 0

C10_RegNackAborts ==
  (spy.last[1] = "Reg" /\ spy.last[2] # "ok")
    => /\ Returned /\ ret = 3
       /\ spy.n["Data"] = 0 /\ spy.rx = <<>>
       /\ spy.n["RepStart"] = 0 /\ spy.n["SlaR"] = 0

C10_Witness ==
  /\ fn = "read" /\ Returned /\ ret = 3
  /\ restarts > 1 /\ restarts < MAX_RESTARTS

\* --------------------------------------------------------------- C11
\* C11: i2c_write puts the data bytes on the bus in buffer order, starting
\* at buf[0]; once the byte at index i has been rejected the call has
\* returned 4, whatever i is: no byte of a higher index was put and no Start
\* was issued again.
C11_DataInOrder ==
  fn = "write" =>
    /\ spy.n["Data"] <= len0
    /\ spy.tx = SubSeq(buf0, 1, spy.n["Data"])
    /\ (spy.last[1] = "Data" /\ spy.last[2] # "ok")
         => (Returned /\ ret = 4 /\ spy.rej["Data"] = 1)
    /\ (Returned /\ ret = 4)
         => (spy.last[1] = "Data" /\ spy.last[2] # "ok")
    /\ (Returned /\ ret = 0) => spy.n["Data"] = len0

C11_Witness ==
  /\ fn = "write" /\ Returned /\ ret = 4
  /\ spy.n["Data"] = MaxLen /\ spy.tx[1] # spy.tx[2]
  /\ spy.rej["SlaW"] > 0

\* --------------------------------------------------------------- C12
\* C12: in i2c_read the operation after the ACKed register-address byte is
\* a second Start, issued with no Stop since the first one, and the
\* operation after an accepted second Start is the slave address framed
\* with the read direction bit; a rejected second Start or a rejected
\* read-address frame ends the call at once (status 4 or 5) with no retry
\* and no byte received.
C12_RepeatedStart ==
  /\ [][/\ (spy'.n["RepStart"] > spy.n["RepStart"])
            => /\ fn = "read" /\ spy.last = <<"Reg", "ok">>
               /\ spy.n["Stop"] = 0 /\ spy.n["RepStart"] = 0
        /\ (fn = "read" /\ spy.last = <<"Reg", "ok">> /\ spy' # spy
              /\ pc' # "idle")
            => spy'.last[1] = "RepStart"
        /\ (spy'.n["SlaR"] > spy.n["SlaR"])
            => /\ spy.last = <<"RepStart", "ok">>
               /\ spy'.byte % 2 = TW_READ /\ spy'.byte \div 2 = SlvAdrs
        /\ (spy.last = <<"RepStart", "ok">> /\ spy' # spy /\ pc' # "idle")
            => spy'.last[1] = "SlaR"]_vars
  /\ []((spy.last[1] = "RepStart" /\ spy.last[2] # "ok")
          => /\ Returned /\ ret = 4
             /\ spy.n["RepStart"] = 1 /\ spy.n["SlaR"] = 0 /\ spy.rx = <<>>)
  /\ []((spy.last[1] = "SlaR" /\ spy.last[2] # "ok")
          => /\ Returned /\ ret = 5
             /\ spy.n["RepStart"] = 1 /\ spy.n["SlaR"] = 1 /\ spy.rx = <<>>)

C12_Witness ==
  /\ fn = "read" /\ Returned /\ ret = 5
  /\ spy.n["RepStart"] = 1 /\ spy.byte = 2 * SlvAdrs + 1
  /\ spy.rej["SlaW"] > 0 /\ restarts > 1

\* --------------------------------------------------------------- C13
\* what a side has shown of itself: the operation it is about to issue,
\* the operations it has issued, and the status it returned
AddrObs(f) ==
  [pc |-> f.pc, ret |-> f.ret, nStart |-> f.nStart, nPut |-> f.nPut,
   nStop |-> f.nStop]

\* C13: on the same sequence of bus responses i2c_read and i2c_write behave
\* the same through the addressing phase: the same operations in the same
\* order, the same number of Starts, the same Stop when the retries are
\* exhausted and the same status.
C13_SameAddressing ==
  AddrObs(pair.w) = AddrObs(pair.r)

\* --------------------------------------------------------------- C14
\* C14: against the contention-free slave, i2c_write(addr, n, reg, buf) with
\* n >= 1 returns 0 after exactly the bus trace Start, (addr<<1)|0, reg,
\* buf[0] .. buf[n-1], Stop - one Start, one Stop, nothing rejected - and
\* the slave's register reg holds buf[0].
C14_WriteTrace ==
  (fn = "write" /\ Returned /\ len0 >= 1)
    => /\ ret = 0
       /\ spy.trace =
            <<<<"Start", -1>>, <<"SlaW", 2 * SlvAdrs>>, <<"Reg", adrs>>>>
            \o [i \in 1 .. len0 |-> <<"Data", buf0[i]>>]
            \o <<<<"Stop", -1>>>>
       /\ spy.n["Start"] = 1 /\ spy.n["Stop"] = 1
       /\ \A k \in Kinds : spy.rej[k] = 0
       /\ mem[adrs] = buf0[1]

C14_Witness ==
  /\ hw = "slave" /\ fn = "write" /\ Returned /\ ret = 0
  /\ len0 = MaxLen /\ Len(spy.trace) = MaxLen + 4
  /\ buf0[1] # buf0[2] /\ adrs = 1

\* --------------------------------------------------------------- C15
\* C15: against the contention-free slave, i2c_read(addr, n, reg, buf) with
\* n >= 1 returns 0 after exactly the bus trace Start, (addr<<1)|0, reg,
\* repeated Start, (addr<<1)|1, n receives (the last one not acknowledged),
\* Stop, and buf[0..n-1] holds the n bytes of the slave starting at
\* register reg.
C15_ReadTrace ==
  (fn = "read" /\ Returned /\ len0 >= 1)
    => /\ ret = 0
       /\ spy.trace =
            <<<<"Start", -1>>, <<"SlaW", 2 * SlvAdrs>>, <<"Reg", adrs>>,
              <<"RepStart", -1>>, <<"SlaR", 2 * SlvAdrs + 1>>>>
            \o [i \in 1 .. len0 |->
                  <<IF i < len0 THEN "GetAck" ELSE "GetNack",
                    mem[(adrs + i - 1) % NumRegs]>>]
            \o <<<<"Stop", -1>>>>
       /\ \A i \in 1 .. len0 : buf[i] = mem[(adrs + i - 1) % NumRegs]

C15_Witness ==
  /\ hw = "slave" /\ fn = "read" /\ Returned /\ ret = 0
  /\ len0 = MaxLen /\ Len(spy.trace) = MaxLen + 6
  /\ buf[1] # buf[2] /\ buf # buf0 /\ adrs = 1

\* --------------------------------------------------------------- C16
\* C16: i2c_start returns 0 exactly when the peripheral reports TW_START or
\* TW_REP_START and a non-zero value for every other status; an accepted
\* Start gives the same result whether the bus was idle or the Start was a
\* repeated one inside a transaction.
C16_StartResult ==
  /\ prim.cur.op = "start"
       => /\ prim.cur.ret = 0
               <=> prim.cur.status \in {"TW_START", "TW_REP_START"}
          /\ prim.cur.ret \in 0 .. 255
  /\ (prim.prev.op = "start" /\ prim.cur.op = "start"
        /\ StartClass(prim.prev.status) = StartClass(prim.cur.status))
       => prim.prev.ret = prim.cur.ret

C16_Witness ==
  /\ prim.prev.op = "start" /\ prim.cur.op = "start"
  /\ ~prim.prev.held /\ prim.cur.held
  /\ prim.prev.status = "TW_START" /\ prim.cur.status = "TW_REP_START"
  /\ prim.cur.ret = 0

\* --------------------------------------------------------------- C17
\* C17: i2c_putchar tells five results apart - acknowledged, not
\* acknowledged, arbitration lost, bus error, unknown: two statuses of
\* different classes never give the same return value.
C17_FiveResults ==
  (prim.prev.op = "putchar" /\ prim.cur.op = "putchar"
     /\ PutClass(prim.prev.status) # PutClass(prim.cur.status))
    => prim.prev.ret # prim.cur.ret

\* --------------------------------------------------------------- C18
\* C18: a call in which the peripheral reported a lost arbitration, a bus
\* error or an unknown status for a byte - the write-address frame included
\* - returns a non-zero status; such a report is not taken for a busy
\* slave's NACK and retried.
C18_FaultSurfaced ==
  /\ (Returned /\ spy.fault) => ret # 0
  /\ (spy.last[1] = "SlaW" /\ spy.last[2] \in FaultClasses) => pc # "Start"

\* --------------------------------------------------------------- C19
\* C19: every operation a driver puts on the bus is issued by i2c_write or
\* i2c_read: no driver calls i2c_start, i2c_putchar, the receive primitives
\* or i2c_stop itself.
C19_OnlySequencers ==
  spy.last[1] # "none" => fn \in {"write", "read"}

\* --------------------------------------------------------------- C20
\* C20: nothing guards the bus against a second caller. Whenever the
\* foreground call holds the bus (after its Start, before its Stop) a call
\* of i2c_write or i2c_read by an interrupt handler is accepted; when that
\* call is over, its whole transaction, Start to Stop, lies in the bus
\* trace inside the foreground transaction, and the foreground call goes on
\* from where it was.
C20_NoGuard ==
  /\ [](IrqOpen => (ENABLED IsrWrite /\ ENABLED IsrRead))
  /\ [][(saved # <<>> /\ saved' = <<>>)
          => /\ saved[1].spy.n["Start"] >= 1 /\ saved[1].spy.n["Stop"] = 0
             /\ spy.trace[1][1] = "Start"
             /\ spy.trace[Len(spy.trace)][1] = "Stop"
             /\ spy'.trace = saved[1].spy.trace \o spy.trace
             /\ pc' = saved[1].pc /\ fn' = saved[1].fn]_vars

\* the foreground i2c_write puts a byte on the bus after the handler's Stop
C20_Witness ==
  /\ saved = <<>> /\ fn = "write" /\ spy.last[1] \in {"Reg", "Data"}
  /\ \E k \in 1 .. (Len(spy.trace) - 1) :
       /\ spy.trace[k][1] = "Stop"
       /\ spy.trace[k + 1][1] = spy.last[1]

\* --------------------------------------------------------------- C27
\* the call is on one of its retry-exhaustion exits
Exhausted ==
  \/ pc = "Stop" /\ rc \in {1, 2}
  \/ pc = "done" /\ ret \in {1, 2}

\* the rejected Starts and write-address frames the call went on after
Tolerated == Retried - (IF Exhausted THEN 1 ELSE 0)

\* C27: one retry counter serves rejected Starts and rejected write-address
\* frames together: within a call it has been decremented once for each of
\* them, in whatever order they came, the call goes on after at most
\* MAX_RESTARTS of them, the counter changes by decrements only, and a call
\* starts with the counter at MAX_RESTARTS.
C27_SharedBudget ==
  /\ []((fn \in {"write", "read"} /\ pc # "idle" /\ len0 >= 1)
          => /\ restarts = U8(MAX_RESTARTS - Retried)
             /\ Tolerated <= MAX_RESTARTS)
  /\ [][/\ (pc \notin {"idle", "done"} /\ pc' # "idle")
            => restarts' \in {restarts, U8(restarts - 1)}
        /\ (pc = "idle" /\ pc' # "idle") => restarts' = MAX_RESTARTS]_vars

C27_Witness ==
  /\ fn = "write" /\ Returned /\ ret = 2
  /\ spy.rej["Start"] > 0 /\ spy.rej["SlaW"] > 0
  /\ Tolerated = MAX_RESTARTS

\* --------------------------------------------------------------- C28
\* C28: after a rejected Start or a rejected write-address frame that
\* leaves budget, the call's next bus operation is a Start; up to then it
\* has issued no Stop, no register-address byte and no data byte.
C28_RetryReissuesStart ==
  /\ []((spy.last[1] \in {"Start", "SlaW"} /\ spy.last[2] # "ok"
          /\ Retried < MAX_RESTARTS)
          => /\ pc = "Start"
             /\ spy.n["Stop"] = 0 /\ spy.n["Reg"] = 0 /\ spy.n["Data"] = 0
             /\ spy.rx = <<>>)
  /\ [][(spy.last[1] \in {"Start", "SlaW"} /\ spy.last[2] # "ok"
           /\ Retried < MAX_RESTARTS /\ spy' # spy)
          => spy'.last[1] = "Start"]_vars

C28_Witness ==
  /\ spy.last = <<"Start", "ok">> /\ spy.lastRej = "SlaW"
  /\ spy.rej["Start"] > 0 /\ spy.n["Start"] = spy.n["SlaW"] + spy.rej["Start"] + 1

\* --------------------------------------------------------------- C29
\* C29: a call with len >= 1 that returns 0, and a call that returns 2,
\* ends with a Stop as its last bus operation, the only Stop of the call.
C29_StopLast ==
  (Returned /\ len0 >= 1 /\ ret \in {0, 2})
    => (spy.last[1] = "Stop" /\ spy.n["Stop"] = 1)

C29_Witness ==
  /\ fn = "read" /\ Returned /\ ret = 2 /\ spy.n["Stop"] = 1
  /\ spy.rej["Start"] > 0

\* --------------------------------------------------------------- C30
\* C30: an i2c_read that returns a non-zero status has left every byte of
\* the caller's buffer as it was; one that returns 0 with len = n >= 1 has
\* stored the n received bytes in buf[0..n-1] and nothing beyond.
C30_FailedReadKeepsBuf ==
  (fn = "read" /\ Returned)
    => /\ ret # 0 => (buf = buf0 /\ spy.rx = <<>>)
       /\ (ret = 0 /\ len0 >= 1)
            => /\ \A i \in 1 .. len0 : buf[i] = spy.rx[i][2]
               /\ \A i \in (len0 + 1) .. MaxLen : buf[i] = buf0[i]
               /\ Len(spy.rx) = len0

C30_Witness ==
  /\ fn = "read" /\ Returned /\ ret = 5 /\ len0 = MaxLen
  /\ buf = buf0 /\ buf[1] # buf[2]

\* --------------------------------------------------------------- C21
\* C21: there is no timeout. Once the peripheral fails to complete the
\* operation a call has issued, the call stays in that primitive's poll
\* loop: it never returns and reports no status.
C21_NoTimeout ==
  /\ [](hang => (pc \notin {"idle", "done"} /\ ret = -1))
  /\ [][hang => (hang' /\ pc' = pc /\ ret' = ret /\ fn' = fn)]_vars

C21_Witness ==
  /\ hang /\ fn = "read" /\ pc = "Data" /\ spy.n["GetAck"] = 1
  /\ ret = -1

\* the string in the caller's buffer: the bytes before the first 0
RECURSIVE StrFrom(_, _)
StrFrom(a, j) ==
  IF j \notin DOMAIN a \/ a[j] = 0 THEN <<>>
  ELSE <<a[j]>> \o StrFrom(a, j + 1)

\* the codes of the keys that carry flag F, in key-index order
RECURSIVE CodesFrom(_, _, _)
CodesFrom(key, F, i) ==
  IF i \notin DOMAIN key THEN <<>>
  ELSE (IF (key[i].flags \div F) % 2 = 1 THEN <<key[i].code>> ELSE <<>>)
         \o CodesFrom(key, F, i + 1)

\* what a get function owes for flag F, from the keypad before (a) to the
\* keypad after (b)
GetPost(a, b, F) ==
  /\ StrFrom(b.keyStr, 0) = CodesFrom(a.key, F, 0)
  /\ b.ret = IF CodesFrom(a.key, F, 0) = <<>> THEN 0 ELSE 1
  /\ \A i \in MkKeys :
       /\ (b.key[i].flags \div F) % 2 = 0
       /\ \A G \in {KEY_PRESSED_FLAG, KEY_HELD_FLAG, KEY_CHANGED_FLAG} \ {F} :
            (b.key[i].flags \div G) % 2 = (a.key[i].flags \div G) % 2
       /\ b.key[i].state = a.key[i].state
       /\ b.key[i].code = a.key[i].code
       /\ b.key[i].debounceTimer = a.key[i].debounceTimer
       /\ b.key[i].holdTimer = a.key[i].holdTimer
  /\ b.keyDebounceTime = a.keyDebounceTime
  /\ b.keyHoldTime = a.keyHoldTime

\* two get calls of the same kind in a row: the second finds nothing
GetAgain(a, b) ==
  a.op = b.op => b.ret = 0 /\ StrFrom(b.keyStr, 0) = <<>>

\* C24: a call of matrix_keypad_get_pressed_keys (matrix_keypad_get_held_keys)
\* returns the codes of exactly the keys whose pressed (held) flag is set,
\* zero-terminated and in key-index order, clears those flags and leaves
\* states, timers and the other flags alone; a second call with no scan in
\* between returns 0 and the empty string
C24_ReportOnce ==
  [][/\ mk'.op = "pressed" => GetPost(mk, mk', KEY_PRESSED_FLAG)
                                /\ GetAgain(mk, mk')
     /\ mk'.op = "held" => GetPost(mk, mk', KEY_HELD_FLAG)
                             /\ GetAgain(mk, mk')]_vars

\* both keys were reported held, in index order, while a pressed flag is
\* still waiting
C24_Witness ==
  /\ mk.op = "held" /\ mk.ret = 1
  /\ mk.keyStr = [j \in 0 .. 2 |-> IF j = 2 THEN 0 ELSE MkCodes[j]]
  /\ \E i \in MkKeys : (mk.key[i].flags \div KEY_PRESSED_FLAG) % 2 = 1

\* a press episode is over and its account is complete
EpisodeOver == pbk.PBKeyState = PBKeyNotProcess /\ pbk.epClosed > 0

\* C25 as stated: every press episode sets exactly one flag, the Pressed
\* flag if the key was closed for fewer than PBKEYHOLDTIME calls and the
\* Held flag if it was closed for more
C25_OneFlagPerEpisode ==
  EpisodeOver =>
    /\ Cardinality(pbk.epSet) = 1
    /\ pbk.epClosed < PBKEYHOLDTIME => pbk.epSet = {"Pressed"}
    /\ pbk.epClosed > PBKEYHOLDTIME => pbk.epSet = {"Held"}

\* C25, amended: an episode sets at most one kind of flag, decided by the
\* number of calls in a row in which the pins read the detected code: none
\* after one call, Pressed up to PBKEYHOLDTIME + 1 calls, Held from
\* PBKEYHOLDTIME + 2 calls on; pbmxkeys_run never clears a flag
C25_FlagByClosedCalls ==
  [][pbk'.op = "run" =>
       /\ BitAnd(pbk'.PBKeyPrsdFlgs, pbk.PBKeyPrsdFlgs) = pbk.PBKeyPrsdFlgs
       /\ BitAnd(pbk'.PBKeyHeldFlgs, pbk.PBKeyHeldFlgs) = pbk.PBKeyHeldFlgs
       /\ Cardinality(pbk'.epSet) <= 1
       /\ (pbk'.PBKeyState = PBKeyNotProcess /\ pbk'.epClosed > 0) =>
            pbk'.epSet =
              IF pbk'.epClosed = 1 THEN {}
              ELSE IF pbk'.epClosed <= PBKEYHOLDTIME + 1 THEN {"Pressed"}
              ELSE {"Held"}]_vars

\* a key closed for PBKEYHOLDTIME + 1 calls and then released was reported
\* as pressed
C25_Witness ==
  /\ EpisodeOver /\ pbk.op = "run"
  /\ pbk.epClosed = PBKEYHOLDTIME + 1
  /\ pbk.epSet = {"Pressed"}
  /\ BitAnd(pbk.PBKeyPrsdFlgs, pbk.PBKeyCode) = pbk.PBKeyCode

\* C26: every call of pbmxkeys_run returns with all key pins switched to
\* output in the DDR and with every other DDR bit as it was
C26_DdrRestored ==
  [][pbk'.op = "run" =>
       /\ BitAnd(pbk'.DDR, pbk.PBKeysMask) = pbk.PBKeysMask
       /\ BitAnd(pbk'.DDR, BitNot(pbk.PBKeysMask))
            = BitAnd(pbk.DDR, BitNot(pbk.PBKeysMask))]_vars

\* a call that found the key pins as inputs, next to output pins of another
\* device, has returned in the middle of an episode
C26_Witness ==
  /\ pbk.op = "run" /\ pbk.DDR = 175
  /\ pbk.PBKeyState = PBKeyHeldOpenNotDbncd

\* the byte stream the accepted calls have brought so far
Accepted == [k \in 1 .. uart.nacc |-> U8(k)]

\* the transmitter is at rest: no call is running and the data register
\* empty interrupt is off
UartQuiet == uart.pc = "idle" /\ ~uart.UDRIE0

\* C22: the bytes written to UDR0 are the bytes of the accepted calls, each
\* once and in the order they were accepted, and no other byte: what has
\* been written is always the beginning of the accepted stream, and all of
\* it once the transmitter is at rest
C22_FifoExactlyOnce ==
  /\ Len(uart.sent) <= uart.nacc
  /\ \A k \in 1 .. Len(uart.sent) : uart.sent[k] = Accepted[k]
  /\ UartQuiet => uart.sent = Accepted

\* C23: uart_write returns the length when the input is longer than the
\* transmit buffer, and 0 in every other case
C23_ReturnValue ==
  uart.pc = "done" =>
    uart.ret = IF uart.length > TX_BUFFER_LENGTH THEN uart.length ELSE 0

\* C36: the hold timer stays within 1 .. PBKEYHOLDTIME, and it is at
\* PBKEYHOLDTIME whenever no key is being processed, so that every new
\* press gets the full hold time
C36_HoldTimerRange ==
  /\ 1 <= pbk.PBKeyHeldTimer /\ pbk.PBKeyHeldTimer <= PBKEYHOLDTIME
  /\ pbk.PBKeyState = PBKeyNotProcess => pbk.PBKeyHeldTimer = PBKEYHOLDTIME

\* a press that had run the timer down was released and reported, and the
\* timer is wound up again
C36_Witness ==
  /\ EpisodeOver /\ pbk.op = "run"
  /\ pbk.epClosed > 2 /\ pbk.epSet = {"Pressed"}
  /\ pbk.PBKeyHeldTimer = PBKEYHOLDTIME

\* C37: buf_head and buf_tail point inside uart_buffer whenever a byte is
\* read through buf_head or written through buf_tail, and tx_count never
\* exceeds tx_length
C37_PointersInRange ==
  /\ (uart.pc = "load" \/ (UdreIrq /\ uart.tx_count < uart.tx_length))
       => uart.buf_head \in 0 .. TX_BUFFER_LENGTH - 1
  /\ (uart.pc = "copy" /\ uart.i < uart.length)
       => uart.buf_tail \in 0 .. TX_BUFFER_LENGTH - 1
  /\ uart.tx_count <= uart.tx_length

\* the cell holds a byte of an accepted call that has not been written to
\* UDR0 yet
Unsent(v) == v # 0 /\ \A k \in 1 .. Len(uart.sent) : uart.sent[k] # v

\* C38: a call that was accepted never stores a byte over a buffered byte
\* that has not been transmitted yet
C38_OnlyIfFits ==
  (uart.pc = "copy" /\ uart.i < uart.length)
    => ~Unsent(uart.uart_buffer[uart.buf_tail])

\* C31: the frame byte is (SlvAdrs * 2 + direction) mod 256; for a 7-bit
\* address its upper seven bits are the address and its low bit the
\* direction, the write frame and the read frame of one call carry the same
\* address, and an address from 128 on frames like the address less 128
C31_Framing ==
  frame.SlvAdrs >= 0 =>
    /\ frame.w = (frame.SlvAdrs * 2 + 0) % 256
    /\ frame.r = (frame.SlvAdrs * 2 + 1) % 256
    /\ frame.w % 2 = 0 /\ frame.r % 2 = 1
    /\ frame.w \div 2 = frame.r \div 2
    /\ frame.SlvAdrs <= 127 => frame.w \div 2 = frame.SlvAdrs
    /\ frame.SlvAdrs >= 128 =>
         /\ frame.w = ((frame.SlvAdrs - 128) * 2) % 256
         /\ frame.r = ((frame.SlvAdrs - 128) * 2 + 1) % 256

\* an address with the top bit set was framed
C31_Witness ==
  /\ frame.SlvAdrs = 128 + ADXL345SlaveAdrs
  /\ frame.w = 166 /\ frame.r = 167

\* C32: for every debounce time d, a key in KEYPAD_IDLE gets its pressed
\* flag at exactly the (d+1)-th scan in a row that reads it closed, and a
\* scan that reads it open before that takes it back to KEYPAD_IDLE with no
\* flag set
C32_PressDebounce ==
  /\ (press.closed > 0 /\ press.from = KEYPAD_IDLE) =>
       press.pressedAt = IF press.closed >= mk.keyDebounceTime + 1
                           THEN mk.keyDebounceTime + 1 ELSE 0
  /\ press.abort => mk.key[0].state = KEYPAD_IDLE

C34_NoPressLost ==
  (/\ mk.keyDebounceTime >= 1
   /\ press.from \notin {KEYPAD_PRESSED, KEYPAD_HELD}
   /\ press.closed >= mk.keyDebounceTime + 1)
    => press.pressedAt \in 1 .. mk.keyDebounceTime + 1

\* C35: on every return of matrix_keypad_scan_keys every column pin it
\* drove low is an input again and its port bit is high
C35_ColumnsRestored ==
  scan.pc = "done" =>
    /\ BitAnd(scan.colDDR, scan.driven) = 0
    /\ BitAnd(scan.colPORT, scan.driven) = scan.driven

\* C35, termination: a scan that has been entered returns
C35_Terminates == (scan.pc = "entry") ~> (scan.pc = "done")

====
